---------------------------- MODULE Spec2Model ----------------------------
(***************************************************************************)
(* SpaceSimEngine: the physics engine (src/physics/engine.py), its force   *)
(* models and integrators, and the body / system data model                *)
(* (src/bodies/celestial_body.py).                                         *)
(*                                                                         *)
(* Scalars.  Every scalar of the program is a Python float.  The model     *)
(* keeps a float as an integer count of 1/Scale units and rounds the exact *)
(* result of every arithmetic operation to the nearest value that has      *)
(* MantBits significant bits (ties to even), which is what IEEE-754 does   *)
(* with 53 bits.  Rounding is symmetric in the sign, additions are not     *)
(* associative, and a quotient whose divisor is zero raises                *)
(* ZeroDivisionError.  Overflow to inf and NaN are outside the model: the  *)
(* tick counter is capped so that no value comes near the largest float.   *)
(* Quantities are in model units (G, masses, distances of a few units),    *)
(* not SI.                                                                 *)
(*                                                                         *)
(* Objects.  CelestialBody and SolarSystem instances are Python objects    *)
(* referred to by reference; the model keeps each in a heap (a sequence)   *)
(* and a reference is the index into it, 0 standing for None.              *)
(***************************************************************************)
EXTENDS Integers, Sequences, FiniteSets, TLC

\* ------------------------------------------------------------------ bounds
MantBits == 4    \* significant bits of the model's float
FracBits == 3    \* fractional bits: Scale = 2^FracBits units make 1.0

Scale == 2 ^ FracBits
Num(n) == n * Scale          \* the float n.0
NONE == 0                    \* Python's None, as a reference

\* ------------------------------------------------------- float arithmetic
Abs(n) == IF n < 0 THEN 0 - n ELSE n
Sgn(n) == IF n < 0 THEN 0 - 1 ELSE IF n > 0 THEN 1 ELSE 0

\* n / d for n >= 0, d > 0, rounded to the nearest integer, ties to even
RoundDiv(n, d) ==
    LET q == n \div d
        r == n % d
    IN  IF 2 * r < d THEN q
        ELSE IF 2 * r > d THEN q + 1
        ELSE IF q % 2 = 0 THEN q ELSE q + 1

RECURSIVE Ulp(_, _)
\* the spacing of the floats around n >= 0: the least power of two u with
\* n < u * 2^MantBits
Ulp(n, u) == IF n < u * (2 ^ MantBits) THEN u ELSE Ulp(n, 2 * u)

\* the float nearest to the exact value n (in units)
Fl(n) ==
    LET Rounded(sign, a, u) == sign * (RoundDiv(a, u) * u)
        OfAbs(sign, a) == Rounded(sign, a, Ulp(a, 1))
    IN  OfAbs(Sgn(n), Abs(n))

FAdd(a, b) == Fl(a + b)
FSub(a, b) == Fl(a - b)
FMul(a, b) == Fl(Sgn(a) * Sgn(b) * RoundDiv(Abs(a) * Abs(b), Scale))
\* a / b, b # 0 (the callers raise ZeroDivisionError on b = 0)
FDiv(a, b) == Fl(Sgn(a) * Sgn(b) * RoundDiv(Abs(a) * Scale, Abs(b)))

RECURSIVE ISqrt(_, _, _)
\* the floor of the square root of n >= 0, by bisection: lo^2 <= n < hi^2
ISqrt(n, lo, hi) ==
    IF hi - lo <= 1 THEN lo
    ELSE LET mid == (lo + hi) \div 2
         IN  IF mid * mid <= n THEN ISqrt(n, mid, hi) ELSE ISqrt(n, lo, mid)

\* math.sqrt(a), a >= 0: the nearest float to the exact root
FSqrt(a) ==
    LET Nearest(n, s) == IF n > s * s + s THEN s + 1 ELSE s
        Root(n) == Nearest(n, ISqrt(n, 0, IF n < 46340 THEN n + 1 ELSE 46340))
    IN  Fl(Root(a * Scale))

\* ------------------------------------------------------------------ Vector2
ZeroVec == <<0, 0>>
VAdd(a, b) == <<FAdd(a[1], b[1]), FAdd(a[2], b[2])>>
VSub(a, b) == <<FSub(a[1], b[1]), FSub(a[2], b[2])>>
VMul(v, s) == <<FMul(v[1], s), FMul(v[2], s)>>
VDiv(v, s) == <<FDiv(v[1], s), FDiv(v[2], s)>>
VNeg(v) == <<0 - v[1], 0 - v[2]>>
Magnitude(v) == FSqrt(FAdd(FMul(v[1], v[1]), FMul(v[2], v[2])))
\* a normalize that gives the zero vector a direction
NormalizeOrUnit(v) ==
    LET By(mag) == IF mag > 0 THEN <<FDiv(v[1], mag), FDiv(v[2], mag)>>
                   ELSE <<Num(1), 0>>
    IN  By(Magnitude(v))
Normalize(v) ==
    LET By(mag) == IF mag > 0 THEN <<FDiv(v[1], mag), FDiv(v[2], mag)>>
                   ELSE ZeroVec
    IN  By(Magnitude(v))
Distance(a, b) == Magnitude(<<a[1] - b[1], a[2] - b[2]>>)

\* ------------------------------------------------------------ CelestialBody
BodyTypes == {"star", "planet", "gas_giant", "moon", "asteroid", "comet",
              "black_hole"}

\* COLOR_MAP.get(body_type, (255, 255, 255))
COLOR_MAP(body_type) ==
    CASE body_type = "star" -> <<255, 255, 100>>
      [] body_type = "planet" -> <<100, 150, 255>>
      [] body_type = "gas_giant" -> <<255, 150, 50>>
      [] body_type = "moon" -> <<200, 200, 200>>
      [] body_type = "asteroid" -> <<150, 100, 50>>
      [] body_type = "comet" -> <<150, 200, 255>>
      [] body_type = "black_hole" -> <<0, 0, 0>>
      [] OTHER -> <<255, 255, 255>>

\* self.density = 5514, Earth's density: one model unit
DEFAULT_DENSITY == Num(1)

\* CelestialBody.__init__ followed by the attribute writes of the caller
\* (presets, the body editor): a body with an empty trail, zero acceleration
\* and previous_position (0, 0), no parent, the radius and the density of the
\* constructor (one unit each) and the colour of its type.
NewBody(name, body_type, mass, position, velocity, fixed, trail_length) ==
    [name |-> name, body_type |-> body_type, mass |-> mass,
     radius |-> Num(1), density |-> DEFAULT_DENSITY,
     position |-> position, velocity |-> velocity,
     acceleration |-> ZeroVec, previous_position |-> ZeroVec,
     color |-> COLOR_MAP(body_type),
     trail_length |-> trail_length, previous_positions |-> <<>>,
     parent |-> NONE, fixed_position |-> fixed]

\* math.pi, to the model's precision: 3.25
PI == 3 * Scale + 2

RECURSIVE ICbrt(_, _, _)
\* the floor of the cube root of n >= 0, by bisection: lo^3 <= n < hi^3
ICbrt(n, lo, hi) ==
    IF hi - lo <= 1 THEN lo
    ELSE LET mid == (lo + hi) \div 2
         IN  IF mid * mid * mid <= n THEN ICbrt(n, mid, hi)
             ELSE ICbrt(n, lo, mid)

\* a ** (1/3), a >= 0: the nearest float to the exact cube root (a negative
\* base gives a complex number in Python; no mass explored is negative)
FCbrt(a) ==
    LET Nearest(n, s) ==
            IF 8 * n >= (2 * s + 1) * (2 * s + 1) * (2 * s + 1) THEN s + 1
            ELSE s
        Root(n) == Nearest(n, ICbrt(n, 0, IF n < 1290 THEN n + 1 ELSE 1290))
    IN  Fl(Root(a * Scale * Scale))

\* a ** 3
FCube(a) == Fl(Sgn(a) * RoundDiv(Abs(a) * Abs(a) * Abs(a), Scale * Scale))

\* CelestialBody.update_radius_from_mass: the body after the call
UpdateRadiusFromMass(body) ==
    LET OfVolume(volume) ==
            [body EXCEPT !.radius =
                FCbrt(FDiv(FMul(Num(3), volume), FMul(Num(4), PI)))]
    IN  IF body.density > 0 THEN OfVolume(FDiv(body.mass, body.density))
        ELSE body

\* CelestialBody.update_mass_from_radius: the body after the call
UpdateMassFromRadius(body) ==
    LET OfVolume(volume) == [body EXCEPT !.mass = FMul(body.density, volume)]
    IN  IF body.density > 0
          THEN OfVolume(FMul(FMul(FDiv(Num(4), Num(3)), PI),
                             FCube(body.radius)))
        ELSE body

\* -------------------------------------------------------------- force models
ModelKeys == {"newtonian", "relativistic"}

\* physics/constants.py is not part of the sources: the speed of light and the
\* gamma sentinel are given in model units, small enough for beta, gamma and the
\* Schwarzschild radius to be visible on the model's grid.
SPEED_OF_LIGHT == Num(4)
GAMMA_MAX == Num(64)
softening_length == Num(1)

\* NewtonianPhysics.calculate_gravity: (force on body1, distance)
NewtonianGravity(G, body1, body2) ==
    LET AtDistance(r, distance) ==
            [raised |-> "",
             force |-> VMul(Normalize(r),
                 FDiv(FMul(FMul(G, body1.mass), body2.mass),
                      FAdd(FMul(distance, distance),
                           FMul(softening_length, softening_length)))),
             distance |-> distance]
        Along(r) == AtDistance(r, Magnitude(r))
    IN  Along(VSub(body2.position, body1.position))

\* a test that ignores enable_time_dilation
CorrectsBeyondRadius(dilation, distance, schwarzschild_radius) ==
    distance > schwarzschild_radius
\* self.enable_time_dilation and distance > schwarzschild_radius
Corrects(dilation, distance, schwarzschild_radius) ==
    dilation /\ distance > schwarzschild_radius

\* RelativisticPhysics.calculate_gravity
RelativisticGravity(G, dilation, body1, body2) ==
    LET Raise(distance) ==
            [raised |-> "ZeroDivisionError", force |-> ZeroVec,
             distance |-> distance]
        \* correction = 1 + (gamma - 1) * 0.5 + (time_dilation - 1) * 0.1
        Corrected(n, gamma, time_dilation) ==
            [raised |-> "",
             force |-> VMul(n.force,
                 FAdd(FAdd(Num(1),
                           FMul(FSub(gamma, Num(1)), FDiv(Num(1), Num(2)))),
                      FMul(FSub(time_dilation, Num(1)), FDiv(Num(1), Num(10))))),
             distance |-> n.distance]
        \* time_dilation = 1 / math.sqrt(1 - schwarzschild_radius / distance)
        Dilated(n, gamma, tden) ==
            IF tden = 0 THEN Raise(n.distance)
            ELSE Corrected(n, gamma, FDiv(Num(1), tden))
        WithGamma(n, schwarzschild_radius, gamma) ==
            IF Corrects(dilation, n.distance, schwarzschild_radius)
              THEN Dilated(n, gamma,
                       FSqrt(FSub(Num(1),
                                  FDiv(schwarzschild_radius, n.distance))))
              ELSE n
        \* gamma = 1 / math.sqrt(1 - beta**2) if beta < 1 else 1e10
        Gamma(n, schwarzschild_radius, beta, gden) ==
            IF beta >= Num(1) THEN WithGamma(n, schwarzschild_radius, GAMMA_MAX)
            ELSE IF gden = 0 THEN Raise(n.distance)
            ELSE WithGamma(n, schwarzschild_radius, FDiv(Num(1), gden))
        WithBeta(n, schwarzschild_radius, beta) ==
            Gamma(n, schwarzschild_radius, beta,
                  IF beta >= Num(1) THEN 0
                  ELSE FSqrt(FSub(Num(1), FMul(beta, beta))))
        Relative(n) ==
            IF n.distance = 0
              THEN [raised |-> "", force |-> ZeroVec, distance |-> 0]
              ELSE WithBeta(n,
                       FDiv(FMul(FMul(Num(2), G), body1.mass),
                            FMul(SPEED_OF_LIGHT, SPEED_OF_LIGHT)),
                       FDiv(Magnitude(VSub(body2.velocity, body1.velocity)),
                            SPEED_OF_LIGHT))
    IN  Relative(NewtonianGravity(G, body1, body2))

\* physics_model.calculate_gravity, dispatched on the model's class
CalculateGravity(key, G, dilation, body1, body2) ==
    IF key = "relativistic"
      THEN RelativisticGravity(G, dilation, body1, body2)
      ELSE NewtonianGravity(G, body1, body2)

\* the pairs (i, j), i < j, of calculate_all_forces' two loops, in loop order
RECURSIVE PairsFrom(_, _, _)
PairsFrom(i, j, n) ==
    IF i >= n THEN <<>>
    ELSE IF j > n THEN PairsFrom(i + 1, i + 2, n)
    ELSE <<<<i, j>>>> \o PairsFrom(i, j + 1, n)

\* mutant: the force added to both bodies of the pair
AccumulateSameSign(forces, i, j, force) ==
    [k \in DOMAIN forces |->
        IF k = i \/ k = j THEN VAdd(forces[k], force) ELSE forces[k]]

\* forces[i] = forces[i] + force; forces[j] = forces[j] - force
Accumulate(forces, i, j, force) ==
    [k \in DOMAIN forces |->
        IF k = i THEN VAdd(forces[k], force)
        ELSE IF k = j THEN VSub(forces[k], force)
        ELSE forces[k]]

RECURSIVE ForceLoop(_, _, _, _, _, _)
\* the loop body over the remaining pairs; an exception ends the call
ForceLoop(key, G, dilation, bs, pairs, forces) ==
    LET Step(i, j, g) ==
            IF g.raised # "" THEN [raised |-> g.raised, forces |-> forces]
            ELSE ForceLoop(key, G, dilation, bs, Tail(pairs),
                           Accumulate(forces, i, j, g.force))
        Pair(i, j) == Step(i, j, CalculateGravity(key, G, dilation, bs[i], bs[j]))
    IN  IF pairs = <<>> THEN [raised |-> "", forces |-> forces]
        ELSE Pair(Head(pairs)[1], Head(pairs)[2])

\* NewtonianPhysics.calculate_all_forces (inherited by RelativisticPhysics):
\* bs is the list of body records
CalculateAllForces(key, G, dilation, bs) ==
    ForceLoop(key, G, dilation, bs, PairsFrom(1, 2, Len(bs)),
              [k \in 1..Len(bs) |-> ZeroVec])


\* --------------------------------------------------------------- integrators
IntegratorKeys == {"euler", "verlet", "rk4"}

\* mutant: the append without the eviction
AppendTrailUnbounded(trail, position, trail_length) == Append(trail, position)

\* mutant: a full trail turns the new entry away and keeps its oldest
AppendTrailKeepOldest(trail, position, trail_length) ==
    IF Len(trail) + 1 > trail_length THEN trail ELSE Append(trail, position)

\* body.previous_positions.append(position); if len > trail_length: pop(0)
AppendTrail(trail, position, trail_length) ==
    IF Len(trail) + 1 > trail_length THEN Tail(Append(trail, position))
    ELSE Append(trail, position)

\* EulerIntegrator.integrate: the body after the call, or the exception that
\* left it as it was
EulerIntegrate(body, net_force, dt) ==
    LET Moved(acceleration, velocity, position) ==
            [raised |-> "",
             body |-> [body EXCEPT
                 !.acceleration = acceleration,
                 !.velocity = velocity,
                 !.position = position,
                 !.previous_positions =
                     AppendTrail(@, position, body.trail_length)]]
        \* body.position = body.position + body.velocity * dt
        Sped(acceleration, velocity) ==
            Moved(acceleration, velocity,
                  VAdd(body.position, VMul(velocity, dt)))
        \* body.velocity = body.velocity + body.acceleration * dt
        Accelerated(acceleration) ==
            Sped(acceleration, VAdd(body.velocity, VMul(acceleration, dt)))
    IN  IF body.mass = 0 THEN [raised |-> "ZeroDivisionError", body |-> body]
        ELSE Accelerated(VDiv(net_force, body.mass))

\* mutant: the position kept is the one of the step before
OldPositionStale(body) == body.previous_position
\* old_position = body.position.copy()
OldPosition(body) == body.position

\* mutant: the step starts from the position and the stored velocity
TwicePositionLessPreviousFromVelocity(body) ==
    VAdd(body.position, body.velocity)
\* body.position * 2 - body.previous_position
TwicePositionLessPrevious(body) ==
    VSub(VMul(body.position, Num(2)), body.previous_position)

\* VerletIntegrator.integrate: both divisions come before the first write
VerletIntegrate(body, net_force, dt) ==
    LET Moved(acceleration, new_position, two_dt) ==
            IF two_dt = 0 THEN [raised |-> "ZeroDivisionError", body |-> body]
            ELSE [raised |-> "",
                  body |-> [body EXCEPT
                      !.velocity =
                          VDiv(VSub(new_position, body.previous_position),
                               two_dt),
                      !.previous_position = OldPosition(body),
                      !.position = new_position,
                      !.acceleration = acceleration,
                      !.previous_positions =
                          AppendTrail(@, new_position, body.trail_length)]]
        \* new_position = position * 2 - previous_position + acceleration * dt**2
        Accelerated(acceleration) ==
            Moved(acceleration,
                  VAdd(TwicePositionLessPrevious(body),
                       VMul(acceleration, FMul(dt, dt))),
                  FMul(Num(2), dt))
    IN  IF body.mass = 0 THEN [raised |-> "ZeroDivisionError", body |-> body]
        ELSE Accelerated(VDiv(net_force, body.mass))

\* RK4Integrator.integrate: k1_v = net_force / mass * dt, k1_p, k2_v and k2_p
\* are locals; then 2*k2_v is int * Vector2, and Vector2 defines __mul__ but no
\* __rmul__, so the expression raises TypeError before the body is written.
RK4Integrate(body, net_force, dt) ==
    IF body.mass = 0 THEN [raised |-> "ZeroDivisionError", body |-> body]
    ELSE [raised |-> "TypeError", body |-> body]

\* integrator.integrate, dispatched on the integrator's class
Integrate(key, body, net_force, dt) ==
    IF key = "euler" THEN EulerIntegrate(body, net_force, dt)
    ELSE IF key = "verlet" THEN VerletIntegrate(body, net_force, dt)
    ELSE RK4Integrate(body, net_force, dt)

\* ---------------------------------------------------------------- SolarSystem
\* SolarSystem.__init__ followed by the caller's write of timestep
NewSystem(name, timestep) ==
    [name |-> name, bodies |-> <<>>, central_star |-> NONE, time |-> 0,
     timestep |-> timestep]

\* the records of the bodies a list of references names
BodyList(h, refs) == [k \in 1..Len(refs) |-> h[refs[k]]]

RECURSIVE EnergyPairs(_, _, _, _)
\* the inner loop of calculate_total_energy over j = bodies[i+1:], from j on
EnergyPairs(bs, i, j, total) ==
    LET Potential(distance) ==
            IF distance > 0
              THEN FAdd(total,
                       FDiv(FMul(FMul(0 - Num(1), bs[i].mass), bs[j].mass),
                            distance))
              ELSE total
    IN  IF j > Len(bs) THEN total
        ELSE EnergyPairs(bs, i, j + 1,
                 Potential(Distance(bs[i].position, bs[j].position)))

RECURSIVE EnergyFrom(_, _, _)
\* the outer loop of calculate_total_energy, from body i on
EnergyFrom(bs, i, total) ==
    LET Kinetic(mag) ==
            FMul(FMul(FDiv(Num(1), Num(2)), bs[i].mass), FMul(mag, mag))
    IN  IF i > Len(bs) THEN total
        ELSE EnergyFrom(bs, i + 1,
                 EnergyPairs(bs, i, i + 1,
                     FAdd(total, Kinetic(Magnitude(bs[i].velocity)))))

\* SolarSystem.calculate_total_energy; its G is the literal 6.67430e-11, one
\* model unit, whatever the engine's gravitational_constant is
CalculateTotalEnergy(h, system) == EnergyFrom(BodyList(h, system.bodies), 1, 0)


\* mutant: a star becomes central whether or not the system has a central body
SysAddBodyEveryStar(h, system, ref, set_as_central) ==
    LET Added(central) ==
            [heap |-> IF central THEN [h EXCEPT ![ref].fixed_position = TRUE]
                      ELSE h,
             system |-> [system EXCEPT
                 !.bodies = Append(@, ref),
                 !.central_star = IF central THEN ref ELSE @]]
    IN  Added(set_as_central \/ h[ref].body_type = "star")

\* mutant: the central body is recorded but not fixed
SysAddBodyNotFixed(h, system, ref, set_as_central) ==
    LET Added(central) ==
            [heap |-> h,
             system |-> [system EXCEPT
                 !.bodies = Append(@, ref),
                 !.central_star = IF central THEN ref ELSE @]]
    IN  Added(set_as_central
              \/ (h[ref].body_type = "star" /\ system.central_star = NONE))

\* SolarSystem.add_body(body, set_as_central), body the object ref names; the
\* result is the heap and the system after the call. A CelestialBody is always
\* true, so "not self.central_star" is "central_star is None".
SysAddBody(h, system, ref, set_as_central) ==
    LET Added(central) ==
            [heap |-> IF central THEN [h EXCEPT ![ref].fixed_position = TRUE]
                      ELSE h,
             system |-> [system EXCEPT
                 !.bodies = Append(@, ref),
                 !.central_star = IF central THEN ref ELSE @]]
    IN  Added(set_as_central
              \/ (h[ref].body_type = "star" /\ system.central_star = NONE))

\* a body constructed and handed to add_body, as create_default_system does
AddNewBody(h, system, body, set_as_central) ==
    SysAddBody(Append(h, body), system, Len(h) + 1, set_as_central)

RECURSIVE IndexOfName(_, _, _, _)
\* remove_body's loop: the first index from i on whose body has the name, or 0
IndexOfName(h, refs, body_name, i) ==
    IF i > Len(refs) THEN 0
    ELSE IF h[refs[i]].name = body_name THEN i
    ELSE IndexOfName(h, refs, body_name, i + 1)

\* remove_body without the test of the central body: the reference is kept
SysRemoveBodyKeepCentral(h, system, body_name) ==
    LET Removed(i) ==
            IF i = 0 THEN [system |-> system, ret |-> FALSE]
            ELSE [system |-> [system EXCEPT
                      !.bodies = [k \in 1..(Len(@) - 1) |->
                                     IF k < i THEN @[k] ELSE @[k + 1]]],
                  ret |-> TRUE]
    IN  Removed(IndexOfName(h, system.bodies, body_name, 1))

\* SolarSystem.remove_body(body_name): the system after the call and the value
\* returned
SysRemoveBody(h, system, body_name) ==
    LET Removed(i) ==
            IF i = 0 THEN [system |-> system, ret |-> FALSE]
            ELSE [system |-> [system EXCEPT
                      !.bodies = [k \in 1..(Len(@) - 1) |->
                                     IF k < i THEN @[k] ELSE @[k + 1]],
                      !.central_star = IF system.bodies[i] = @ THEN NONE ELSE @],
                  ret |-> TRUE]
    IN  Removed(IndexOfName(h, system.bodies, body_name, 1))

\* ------------------------------------------------------------ save files
\* A JSON object is a record whose domain is the set of its keys; a value
\* that is a string or null is <<string>> or <<>>.
JsonNull == <<>>
JsonStr(string) == <<string>>
\* the truth value Python gives a value that is a string or None
Truthy(value) == value # JsonNull /\ value # JsonStr("")
\* dict.get(key, default)
Get(data, key, default) == IF key \in DOMAIN data THEN data[key] ELSE default

TRAIL_LENGTH == 1000

\* CelestialBody.to_dict
BodyToDict(h, ref) ==
    [name |-> h[ref].name, body_type |-> h[ref].body_type,
     mass |-> h[ref].mass, radius |-> h[ref].radius,
     density |-> h[ref].density,
     position |-> h[ref].position, velocity |-> h[ref].velocity,
     color |-> h[ref].color, fixed_position |-> h[ref].fixed_position,
     parent |-> IF h[ref].parent # NONE THEN JsonStr(h[h[ref].parent].name)
                ELSE JsonNull]

\* SolarSystem.to_dict
SystemToDict(h, system) ==
    [name |-> system.name, time |-> system.time,
     timestep |-> system.timestep,
     bodies |-> [k \in DOMAIN system.bodies |->
                    BodyToDict(h, system.bodies[k])],
     central_star |-> IF system.central_star # NONE
                        THEN JsonStr(h[system.central_star].name)
                      ELSE JsonNull]

\* the keys CelestialBody.from_dict reads with data[...]
BodyKeys == {"name", "body_type", "mass", "radius", "position", "velocity",
             "color"}

\* a from_dict that reads every key with a default instead of data[...]
BodyFromDictLenient(data) ==
    [raised |-> "",
     body |-> [NewBody(Get(data, "name", "Unnamed Body"),
                       Get(data, "body_type", "planet"),
                       Get(data, "mass", Num(1)),
                       Get(data, "position", ZeroVec),
                       Get(data, "velocity", ZeroVec),
                       Get(data, "fixed_position", FALSE), TRAIL_LENGTH)
                  EXCEPT !.radius = Get(data, "radius", Num(1)),
                         !.density = Get(data, "density", DEFAULT_DENSITY),
                         !.color = Get(data, "color", <<255, 255, 255>>)]]

\* CelestialBody.from_dict(data) as SolarSystem.from_dict calls it, without
\* bodies_dict: the parent stays None
BodyFromDict(data) ==
    IF ~(BodyKeys \subseteq DOMAIN data) THEN [raised |-> "KeyError"]
    ELSE [raised |-> "",
          body |-> [NewBody(data.name, data.body_type, data.mass,
                            data.position, data.velocity,
                            Get(data, "fixed_position", FALSE), TRAIL_LENGTH)
                       EXCEPT !.radius = data.radius,
                              !.density = Get(data, "density", DEFAULT_DENSITY),
                              !.color = data.color]]

\* bodies_dict[name] = ref
DictPut(bodies_dict, name, ref) ==
    [n \in DOMAIN bodies_dict \cup {name} |->
        IF n = name THEN ref ELSE bodies_dict[n]]
\* bodies_dict.get(name)
DictGet(bodies_dict, name) ==
    IF name \in DOMAIN bodies_dict THEN bodies_dict[name] ELSE NONE

RECURSIVE LoadBodies(_, _, _, _, _)
\* the first loop of SolarSystem.from_dict from record k on: each body is
\* constructed, added with add_body and entered in bodies_dict under its name
LoadBodies(h, system, bodies_dict, records, k) ==
    IF k > Len(records)
      THEN [raised |-> "", heap |-> h, system |-> system,
            bodies_dict |-> bodies_dict]
    ELSE LET Added(r, name, ref) ==
                 LoadBodies(r.heap, r.system, DictPut(bodies_dict, name, ref),
                            records, k + 1)
             Made(b) ==
                 IF b.raised # "" THEN [raised |-> b.raised]
                 ELSE Added(AddNewBody(h, system, b.body, FALSE),
                            b.body.name, Len(h) + 1)
         IN  Made(BodyFromDict(records[k]))

RECURSIVE LinkParents(_, _, _, _)
\* the second loop of SolarSystem.from_dict from record k on: a record with a
\* parent that Python takes as true sets the parent of the body entered under
\* the record's name
LinkParents(h, bodies_dict, records, k) ==
    IF k > Len(records) THEN h
    ELSE LinkParents(
             IF Truthy(Get(records[k], "parent", JsonNull))
               THEN [h EXCEPT ![bodies_dict[records[k].name]].parent =
                        DictGet(bodies_dict, records[k].parent[1])]
             ELSE h,
             bodies_dict, records, k + 1)

\* SolarSystem.from_dict(data): the heap with the bodies constructed and the
\* system, or the exception raised (nothing constructed is then referenced)
SystemFromDict(h, data) ==
    IF ~({"name", "bodies"} \subseteq DOMAIN data) THEN [raised |-> "KeyError"]
    ELSE LET Loaded(r) ==
                 IF r.raised # "" THEN [raised |-> r.raised]
                 ELSE [raised |-> "",
                       heap |-> LinkParents(r.heap, r.bodies_dict,
                                            data.bodies, 1),
                       system |->
                           IF Truthy(Get(data, "central_star", JsonNull))
                             THEN [r.system EXCEPT !.central_star =
                                      DictGet(r.bodies_dict,
                                              data.central_star[1])]
                           ELSE r.system]
         IN  Loaded(LoadBodies(h,
                 [NewSystem(data.name, Get(data, "timestep", Num(3600)))
                     EXCEPT !.time = Get(data, "time", 0)],
                 [n \in {} |-> NONE], data.bodies, 1))

\* ------------------------------------------------------------ PhysicsEngine
VARIABLES
    heap,                   \* the CelestialBody objects, by reference
    systems,                \* engine.systems: the SolarSystem objects, in order
    active_system,          \* engine.active_system: index into systems, or NONE
    physics_G,              \* physics_models[key].G
    current_physics,
    current_integrator,
    is_running,
    is_paused,
    frame_count,
    time_scale,
    gravitational_constant,
    total_energy,           \* the cached statistic
    last                    \* the call that produced the state: its name, its
                            \* argument, the exception it raised ("" for none)
                            \* and the value it returned

vars == <<heap, systems, active_system, physics_G, current_physics,
          current_integrator, is_running, is_paused, frame_count, time_scale,
          gravitational_constant, total_energy, last>>

engine_config == <<physics_G, current_physics, current_integrator,
                   gravitational_constant>>
engine_flags == <<is_running, is_paused, time_scale>>

\* a call: its arguments and what it returned are records, by parameter name
Call(op, arg, raised, ret) ==
    [op |-> op, arg |-> arg, raised |-> raised, ret |-> ret]
\* no arguments; a call that returns None
Nothing == [none |-> TRUE]

\* RelativisticPhysics.__init__: enable_time_dilation, never written afterwards
enable_time_dilation == TRUE

RECURSIVE UpdateBodiesAll(_, _, _, _, _, _)
\* mutant: the loop without the fixed_position test
UpdateBodiesAll(key, h, refs, forces, scaled_dt, i) ==
    LET Integrated(r) ==
            IF r.raised # "" THEN [raised |-> r.raised, heap |-> h]
            ELSE UpdateBodiesAll(key, [h EXCEPT ![refs[i]] = r.body], refs,
                                 forces, scaled_dt, i + 1)
    IN  IF i > Len(refs) THEN [raised |-> "", heap |-> h]
        ELSE Integrated(Integrate(key, h[refs[i]], forces[i], scaled_dt))

RECURSIVE UpdateBodies(_, _, _, _, _, _)
\* the loop "for i, body in enumerate(bodies)" of update, from index i on: the
\* heap when the loop ends or an integrate call raises
UpdateBodies(key, h, refs, forces, scaled_dt, i) ==
    LET Integrated(r) ==
            IF r.raised # "" THEN [raised |-> r.raised, heap |-> h]
            ELSE UpdateBodies(key, [h EXCEPT ![refs[i]] = r.body], refs,
                              forces, scaled_dt, i + 1)
    IN  IF i > Len(refs) THEN [raised |-> "", heap |-> h]
        ELSE IF h[refs[i]].fixed_position
          THEN UpdateBodies(key, h, refs, forces, scaled_dt, i + 1)
        ELSE Integrated(Integrate(key, h[refs[i]], forces[i], scaled_dt))

RECURSIVE TickRecomputingFrom(_, _, _, _, _, _, _)
\* mutant: the forces computed again before each body is integrated
TickRecomputingFrom(mkey, G, ikey, h, refs, scaled_dt, i) ==
    LET Integrated(r) ==
            IF r.raised # "" THEN [raised |-> r.raised, heap |-> h]
            ELSE TickRecomputingFrom(mkey, G, ikey,
                     [h EXCEPT ![refs[i]] = r.body], refs, scaled_dt, i + 1)
        Forced(f) ==
            Integrated(Integrate(ikey, h[refs[i]], f.forces[i], scaled_dt))
    IN  IF i > Len(refs) THEN [raised |-> "", heap |-> h]
        ELSE IF h[refs[i]].fixed_position
          THEN TickRecomputingFrom(mkey, G, ikey, h, refs, scaled_dt, i + 1)
        ELSE Forced(CalculateAllForces(mkey, G, TRUE, BodyList(h, refs)))

TickRecomputing(mkey, G, ikey, h, refs, scaled_dt) ==
    TickRecomputingFrom(mkey, G, ikey, h, refs, scaled_dt, 1)

\* update, from "forces = physics_model.calculate_all_forces(bodies)" to the end
\* of the loop over the bodies
Tick(mkey, G, ikey, h, refs, scaled_dt) ==
    LET Apply(f) ==
            IF f.raised # "" THEN [raised |-> f.raised, heap |-> h]
            ELSE UpdateBodies(ikey, h, refs, f.forces, scaled_dt, 1)
    IN  Apply(CalculateAllForces(mkey, G, enable_time_dilation,
                                 BodyList(h, refs)))

\* scaled_dt = dt * self.time_scale * self.active_system.timestep
ScaledDt(dt, scale, timestep) == FMul(FMul(dt, scale), timestep)

\* mutant: the clock moved the other way
AdvanceClockBackwards(system, scaled_dt) ==
    [system EXCEPT !.time = FSub(@, scaled_dt)]

\* self.active_system.time += scaled_dt
AdvanceClock(system, scaled_dt) == [system EXCEPT !.time = FAdd(@, scaled_dt)]

\* mutant: the guard without the pause test
UpdateIgnoresPause == active_system = NONE \/ ~is_running

\* the guard at the top of update
UpdateIsNoOp == active_system = NONE \/ ~is_running \/ is_paused


\* ----------------------------------------------------------------- bounds
MaxTicks == 2      \* update calls that complete (frame_count) per behaviour
MaxTrail == 1      \* the largest trail_length a body is configured with
MaxSystems == 2    \* systems registered with the engine
MaxCoord == 256    \* the largest coordinate (position, velocity) explored

\* every body's position and velocity within the explored range
InRange(h) ==
    \A ref \in DOMAIN h : \A c \in 1..2 :
        /\ Abs(h[ref].position[c]) <= Num(MaxCoord)
        /\ Abs(h[ref].velocity[c]) <= Num(MaxCoord)

\* ------------------------------------------------------------------ inputs
DtValues == {0, Scale \div 2}     \* 0.0 and 0.5
SignedDtValues == {-(Scale \div 2), Scale \div 2}
\* <<cos(angle), sin(angle)>> of the angles create_orbit draws: pi/2
Directions == {<<0, Num(1)>>}
TimeScales == {Num(1), Num(2)}
GValues == {Num(1), Num(2)}
ModelNames == ModelKeys \cup {"quantum"}
IntegratorNames == IntegratorKeys \cup {"leapfrog"}

\* the systems the application layer builds with add_body before it hands them
\* to the engine (create_default_system, SolarSystem.from_dict)
DefaultSystem ==
    LET s0 == NewSystem("Our Solar System", Num(2))
        a == AddNewBody(<<>>, s0,
                 NewBody("Sun", "star", Num(4), ZeroVec, ZeroVec, TRUE, MaxTrail),
                 TRUE)
        b == AddNewBody(a.heap, a.system,
                 NewBody("Earth", "planet", Num(1), <<Num(2), 0>>, <<0, Num(1)>>,
                         FALSE, MaxTrail),
                 FALSE)
    IN  AddNewBody(b.heap, b.system,
            NewBody("Halley", "comet", Num(1), <<0, Num(3)>>, <<Num(3), 0>>,
                    FALSE, 0),
            FALSE)

\* two Star objects (Star.__init__ sets fixed_position): only fixed bodies
BinarySystem ==
    LET a == AddNewBody(<<>>, NewSystem("Binary", Num(2)),
                 NewBody("Alpha", "star", Num(4), ZeroVec, ZeroVec, TRUE, MaxTrail),
                 FALSE)
    IN  AddNewBody(a.heap, a.system,
            NewBody("Beta", "star", Num(2), <<Num(2), 0>>, ZeroVec, TRUE, MaxTrail),
            FALSE)

\* a system without a star: one body drifting
DriftSystem ==
    AddNewBody(<<>>, NewSystem("Drift", Num(1)),
        NewBody("Probe", "asteroid", Num(1), ZeroVec, <<Num(1), 0>>, FALSE,
                MaxTrail),
        FALSE)

Scenarios == {BinarySystem, DriftSystem}

\* a built system moved to the end of the heap h: its references shifted
Relocate(h, sc) ==
    LET shift(ref) == IF ref = NONE THEN NONE ELSE ref + Len(h)
    IN  [heap |-> h \o [k \in 1..Len(sc.heap) |->
                           [sc.heap[k] EXCEPT !.parent = shift(@)]],
         system |-> [sc.system EXCEPT
             !.bodies = [k \in 1..Len(@) |-> shift(@[k])],
             !.central_star = shift(@)]]

\* ----------------------------------------------------------------- actions
\* PhysicsEngine.update(dt)
Update(dt) ==
    LET Finish(scaled_dt, r, after) ==
            /\ InRange(r.heap)
            /\ heap' = r.heap
            /\ last' = Call("update", [dt |-> dt], r.raised, Nothing)
            /\ IF r.raised = ""
                 THEN /\ systems' = [systems EXCEPT ![active_system] = after]
                      /\ total_energy' = CalculateTotalEnergy(r.heap, after)
                      /\ frame_count' = frame_count + 1
                 ELSE UNCHANGED <<systems, total_energy, frame_count>>
        Run(system, scaled_dt) ==
            Finish(scaled_dt,
                   Tick(current_physics, physics_G[current_physics],
                        current_integrator, heap, system.bodies, scaled_dt),
                   AdvanceClock(system, scaled_dt))
    IN  /\ frame_count < MaxTicks
        /\ IF UpdateIsNoOp
             THEN /\ last' = Call("update", [dt |-> dt], "", Nothing)
                  /\ UNCHANGED <<heap, systems, total_energy, frame_count>>
             ELSE Run(systems[active_system],
                      ScaledDt(dt, time_scale, systems[active_system].timestep))
        /\ UNCHANGED <<active_system, engine_config, engine_flags>>

\* PhysicsEngine.set_physics_model(model_name)
SetPhysicsModel(model_name) ==
    /\ IF model_name \in ModelKeys
         THEN /\ current_physics' = model_name
              /\ physics_G' = [physics_G EXCEPT
                                 ![model_name] = gravitational_constant]
         ELSE UNCHANGED <<current_physics, physics_G>>
    /\ last' = Call("set_physics_model", [model_name |-> model_name], "", Nothing)
    /\ UNCHANGED <<heap, systems, active_system, current_integrator,
                   gravitational_constant, engine_flags, frame_count,
                   total_energy>>

\* mutant: an unregistered key puts the default integrator back
SetIntegratorOrDefault(integrator_name) ==
    /\ current_integrator' = IF integrator_name \in IntegratorKeys
                               THEN integrator_name ELSE "verlet"
    /\ last' = Call("set_integrator", [integrator_name |-> integrator_name], "",
                    Nothing)
    /\ UNCHANGED <<heap, systems, active_system, physics_G, current_physics,
                   gravitational_constant, engine_flags, frame_count,
                   total_energy>>

\* PhysicsEngine.set_integrator(integrator_name)
SetIntegrator(integrator_name) ==
    /\ IF integrator_name \in IntegratorKeys
         THEN current_integrator' = integrator_name
         ELSE UNCHANGED current_integrator
    /\ last' = Call("set_integrator", [integrator_name |-> integrator_name], "",
                    Nothing)
    /\ UNCHANGED <<heap, systems, active_system, physics_G, current_physics,
                   gravitational_constant, engine_flags, frame_count,
                   total_energy>>

\* mutant: only the selected model is given the new G
SetGravitationalConstantOfCurrent(G) ==
    /\ gravitational_constant' = G
    /\ physics_G' = [physics_G EXCEPT ![current_physics] = G]
    /\ last' = Call("set_gravitational_constant", [G |-> G], "", Nothing)
    /\ UNCHANGED <<heap, systems, active_system, current_physics,
                   current_integrator, engine_flags, frame_count, total_energy>>

\* PhysicsEngine.set_gravitational_constant(G)
SetGravitationalConstant(G) ==
    /\ gravitational_constant' = G
    /\ physics_G' = [k \in ModelKeys |-> G]
    /\ last' = Call("set_gravitational_constant", [G |-> G], "", Nothing)
    /\ UNCHANGED <<heap, systems, active_system, current_physics,
                   current_integrator, engine_flags, frame_count, total_energy>>

\* mutant: the new system becomes active on request only
ActivatesOnRequest(set_active) == set_active
\* set_active or not self.active_system: a SolarSystem object is always true,
\* so "not self.active_system" is "active_system is None"
Activates(set_active) == set_active \/ active_system = NONE

\* PhysicsEngine.add_system(system, set_active)
AddSystem(sc, set_active) ==
    /\ Len(systems) < MaxSystems
    /\ LET r == Relocate(heap, sc)
       IN  /\ heap' = r.heap
           /\ systems' = Append(systems, r.system)
           /\ active_system' = IF Activates(set_active)
                                 THEN Len(systems) + 1 ELSE active_system
    /\ last' = Call("add_system", [set_active |-> set_active], "", Nothing)
    /\ UNCHANGED <<engine_config, engine_flags, frame_count, total_energy>>

\* a create_orbit that refuses the distance 0 only
RefusedOnlyZero(distance) == distance = 0
\* create_orbit's first test: the call returns at once
Refused(distance) == distance <= 0

\* PhysicsEngine.create_orbit(central_body, orbiting_body, distance,
\* eccentricity, clockwise); direction is <<cos(angle), sin(angle)>> of the
\* angle the call draws at random. The position is assigned before the speed
\* is computed, so a ZeroDivisionError leaves the body moved.
CreateOrbit(central, orbiting, distance, eccentricity, clockwise, direction) ==
    LET args == [central_body |-> central, orbiting_body |-> orbiting,
                 distance |-> distance, eccentricity |-> eccentricity,
                 clockwise |-> clockwise]
        position == VAdd(heap[central].position,
                         <<FMul(distance, direction[1]),
                           FMul(distance, direction[2])>>)
        Raise(kind) ==
            /\ heap' = [heap EXCEPT ![orbiting].position = position]
            /\ last' = Call("create_orbit", args, kind, Nothing)
        Velocity(tangent, orbital_speed) ==
            /\ heap' = [heap EXCEPT
                   ![orbiting].position = position,
                   ![orbiting].velocity =
                       VAdd(heap[central].velocity, VMul(tangent, orbital_speed)),
                   ![orbiting].parent = central]
            /\ last' = Call("create_orbit", args, "", Nothing)
        Speed(orbital_speed) ==
            Velocity(IF clockwise THEN <<-direction[2], direction[1]>>
                     ELSE VMul(<<-direction[2], direction[1]>>, -Num(1)),
                     orbital_speed)
        Elliptical(gm, semi_major_axis) ==
            IF semi_major_axis = 0 THEN Raise("ZeroDivisionError")
            ELSE Speed(FSqrt(FMul(gm, FSub(FDiv(Num(2), distance),
                                           FDiv(Num(1), semi_major_axis)))))
        WithMass(gm) ==
            IF eccentricity = 0 THEN Speed(FSqrt(FDiv(gm, distance)))
            ELSE IF FAdd(Num(1), eccentricity) = 0
              THEN Raise("ZeroDivisionError")
            ELSE Elliptical(gm, FDiv(distance, FAdd(Num(1), eccentricity)))
    IN  /\ IF Refused(distance)
             THEN /\ last' = Call("create_orbit", args, "", Nothing)
                  /\ UNCHANGED heap
             ELSE WithMass(FMul(gravitational_constant,
                                FAdd(heap[central].mass, heap[orbiting].mass)))
        /\ UNCHANGED <<systems, active_system, engine_config, engine_flags,
                       frame_count, total_energy>>


\* a reset of every registered system instead of the active one
ResetSimulationEverySystem ==
    /\ systems' = [k \in DOMAIN systems |-> [systems[k] EXCEPT !.time = 0]]
    /\ heap' = [ref \in DOMAIN heap |->
                  [heap[ref] EXCEPT !.previous_positions = <<>>]]
    /\ last' = Call("reset_simulation", Nothing, "", Nothing)
    /\ UNCHANGED <<active_system, engine_config, engine_flags, frame_count,
                   total_energy>>

\* PhysicsEngine.reset_simulation()
ResetSimulation ==
    /\ IF active_system # NONE
         THEN /\ systems' = [systems EXCEPT ![active_system].time = 0]
              /\ heap' = [ref \in DOMAIN heap |->
                            IF \E k \in DOMAIN systems[active_system].bodies :
                                   systems[active_system].bodies[k] = ref
                              THEN [heap[ref] EXCEPT !.previous_positions = <<>>]
                              ELSE heap[ref]]
         ELSE UNCHANGED <<heap, systems>>
    /\ last' = Call("reset_simulation", Nothing, "", Nothing)
    /\ UNCHANGED <<active_system, engine_config, engine_flags, frame_count,
                   total_energy>>

\* the play button / SPACE: is_running = not is_running
ToggleRunning ==
    /\ is_running' = ~is_running
    /\ last' = Call("toggle_running", Nothing, "", Nothing)
    /\ UNCHANGED <<heap, systems, active_system, engine_config, is_paused,
                   time_scale, frame_count, total_energy>>

\* a host writing the public attribute is_paused
SetPaused(flag) ==
    /\ is_paused' = flag
    /\ last' = Call("set_paused", [flag |-> flag], "", Nothing)
    /\ UNCHANGED <<heap, systems, active_system, engine_config, is_running,
                   time_scale, frame_count, total_energy>>

\* the time-scale slider: engine.time_scale = value
SetTimeScale(value) ==
    /\ time_scale' = value
    /\ last' = Call("set_time_scale", [value |-> value], "", Nothing)
    /\ UNCHANGED <<heap, systems, active_system, engine_config, is_running,
                   is_paused, frame_count, total_energy>>

\* the seconds of a year, in the unit of the clocks explored
SECONDS_PER_YEAR == Num(4)

\* what get_statistics returns: avg_fps is written every 60th tick only, so
\* it is 0 in the ticks explored; computation_time_ms, a wall-clock reading,
\* is left out
Statistics(time_in_years) ==
    [fps |-> 0,
     total_energy |-> total_energy,
     body_count |-> IF active_system # NONE
                      THEN Len(systems[active_system].bodies) ELSE 0,
     simulation_time_years |-> time_in_years,
     physics_model |-> current_physics,
     integrator |-> current_integrator]

\* a get_statistics that reports the clock in seconds
GetStatisticsInSeconds ==
    /\ last' = Call("get_statistics", Nothing, "",
                    Statistics(IF active_system # NONE
                                 THEN systems[active_system].time ELSE 0))
    /\ UNCHANGED <<heap, systems, active_system, engine_config, engine_flags,
                   frame_count, total_energy>>

\* PhysicsEngine.get_statistics()
GetStatistics ==
    /\ last' = Call("get_statistics", Nothing, "",
                    Statistics(IF active_system # NONE
                                 THEN FDiv(systems[active_system].time,
                                           SECONDS_PER_YEAR)
                               ELSE 0))
    /\ UNCHANGED <<heap, systems, active_system, engine_config, engine_flags,
                   frame_count, total_energy>>

\* PhysicsEngine.__init__, but for the G of the two models
EngineInit ==
    /\ current_physics = "newtonian"
    /\ current_integrator = "verlet"
    /\ is_running = FALSE
    /\ is_paused = FALSE
    /\ frame_count = 0
    /\ time_scale = Num(1)
    /\ gravitational_constant = Num(1)
    /\ total_energy = 0
    /\ last = Call("init", Nothing, "", Nothing)

\* a PhysicsEngine just constructed, or CelestialSimulation.__init__: the
\* engine, then the default system built and added
Init ==
    /\ EngineInit
    /\ physics_G = [k \in ModelKeys |-> Num(1)]
    /\ \/ /\ heap = <<>>
          /\ systems = <<>>
          /\ active_system = NONE
       \/ /\ heap = DefaultSystem.heap
          /\ systems = <<DefaultSystem.system>>
          /\ active_system = 1

Next ==
    \/ \E dt \in DtValues : Update(dt)
    \/ \E k \in ModelNames : SetPhysicsModel(k)
    \/ \E k \in IntegratorNames : SetIntegrator(k)
    \/ ResetSimulation
    \/ ToggleRunning
    \/ \E f \in BOOLEAN : SetPaused(f)
    \/ \E v \in TimeScales : SetTimeScale(v)
    \/ GetStatistics

Spec == Init /\ [][Next]_vars

\* ------------------------------------------------ the engine and its systems
\* a PhysicsEngine just constructed: no system. The G each model starts with
\* is G_NEWTONIAN, G_RELATIVITY of physics/constants.py, a file the sources do
\* not include: any of the values explored.
InitEngine ==
    /\ EngineInit
    /\ physics_G \in [ModelKeys -> GValues]
    /\ heap = <<>>
    /\ systems = <<>>
    /\ active_system = NONE

NextEngine ==
    \/ \E dt \in SignedDtValues : Update(dt)
    \/ \E k \in ModelKeys : SetPhysicsModel(k)
    \/ \E k \in IntegratorKeys : SetIntegrator(k)
    \/ \E G \in GValues : SetGravitationalConstant(G)
    \/ \E sc \in Scenarios, set_active \in BOOLEAN : AddSystem(sc, set_active)
    \/ \E k \in DOMAIN systems, distance \in {0, Num(2)}, clockwise \in {TRUE},
          direction \in Directions :
          \E orbiting \in DOMAIN systems[k].bodies :
             /\ systems[k].central_star # NONE
             /\ systems[k].bodies[orbiting] # systems[k].central_star
             /\ heap[systems[k].bodies[orbiting]].parent = NONE
             /\ CreateOrbit(systems[k].central_star, systems[k].bodies[orbiting],
                            distance, 0, clockwise, direction)
    \/ ResetSimulation
    \/ ToggleRunning

SpecEngine == InitEngine /\ [][NextEngine]_vars

\* --------------------------------------------- the force models on their own
MaxBodies == 3     \* bodies of a list handed to calculate_all_forces
ForcePositions == {ZeroVec, <<Num(1), 0>>, <<Num(3), Num(1)>>}
ForceMasses == {Num(1), Num(8)}
\* the light bodies drift, the heavy ones move at the speed of light
ForceVelocity(mass) == IF mass = Num(1) THEN <<Num(1), 0>> ELSE <<Num(4), 0>>
ForceBodies ==
    {NewBody("body", "planet", mass, position, ForceVelocity(mass), FALSE, 0) :
        mass \in ForceMasses, position \in ForcePositions}

\* physics_models[key].calculate_all_forces(bodies), called on the list of all
\* the bodies there are, with enable_time_dilation of the relativistic model
\* as given
CalculateForces(key, dilation) ==
    LET Returned(r) ==
            last' = Call("calculate_all_forces",
                         [key |-> key, enable_time_dilation |-> dilation],
                         r.raised, [forces |-> r.forces])
    IN  /\ Returned(CalculateAllForces(key, physics_G[key], dilation, heap))
        /\ UNCHANGED <<heap, systems, active_system, engine_config, engine_flags,
                       frame_count, total_energy>>

\* active_system.calculate_total_energy()
CalculateEnergy ==
    /\ active_system # NONE
    /\ last' = Call("calculate_total_energy", Nothing, "",
                    [energy |-> CalculateTotalEnergy(heap,
                                    systems[active_system])])
    /\ UNCHANGED <<heap, systems, active_system, engine_config, engine_flags,
                   frame_count, total_energy>>

\* an engine and a system of two to MaxBodies bodies
InitForces ==
    /\ EngineInit
    /\ physics_G = [k \in ModelKeys |-> Num(1)]
    /\ heap \in UNION {[1..n -> ForceBodies] : n \in 2..MaxBodies}
    /\ systems = <<[NewSystem("Cluster", Num(1)) EXCEPT
                       !.bodies = [k \in DOMAIN heap |-> k]]>>
    /\ active_system = 1

NextForces ==
    \/ \E key \in ModelKeys, dilation \in BOOLEAN : CalculateForces(key, dilation)
    \/ CalculateEnergy

SpecForces == InitForces /\ [][NextForces]_vars

\* ------------------------------------------------- a SolarSystem on its own
MaxObjects == 3    \* bodies constructed
MaxListed == 3     \* entries of the body list of the system
BodyNames == {"Sun", "Earth"}
\* CelestialBody(name, body_type=...), Planet(name) and Star(name): Star sets
\* fixed_position, CelestialBody does not, whatever the body_type
NewBodies ==
    {NewBody("Earth", "planet", Num(1), ZeroVec, ZeroVec, FALSE, 0)}
    \cup {NewBody("Sun", "star", Num(4), ZeroVec, ZeroVec, fixed, 0) :
             fixed \in BOOLEAN}

\* a body is constructed
Construct(body) ==
    /\ Len(heap) < MaxObjects
    /\ heap' = Append(heap, body)
    /\ last' = Call("CelestialBody", [name |-> body.name], "",
                    [ref |-> Len(heap) + 1])
    /\ UNCHANGED <<systems, active_system, engine_config, engine_flags,
                   frame_count, total_energy>>

\* active_system.add_body(body, set_as_central)
AddBody(ref, set_as_central) ==
    LET Added(r) ==
            /\ heap' = r.heap
            /\ systems' = [systems EXCEPT ![active_system] = r.system]
    IN  /\ active_system # NONE
        /\ Len(systems[active_system].bodies) < MaxListed
        /\ Added(SysAddBody(heap, systems[active_system], ref, set_as_central))
        /\ last' = Call("add_body",
                        [body |-> ref, set_as_central |-> set_as_central],
                        "", Nothing)
        /\ UNCHANGED <<active_system, engine_config, engine_flags, frame_count,
                       total_energy>>

\* active_system.remove_body(body_name)
RemoveBody(body_name) ==
    LET Removed(r) ==
            /\ systems' = [systems EXCEPT ![active_system] = r.system]
            /\ last' = Call("remove_body", [body_name |-> body_name], "",
                         [found |-> r.ret])
    IN  /\ active_system # NONE
        /\ Removed(SysRemoveBody(heap, systems[active_system], body_name))
        /\ UNCHANGED <<heap, active_system, engine_config, engine_flags,
                       frame_count, total_energy>>

\* an engine whose active system is a SolarSystem just constructed
InitSystem ==
    /\ EngineInit
    /\ physics_G = [k \in ModelKeys |-> Num(1)]
    /\ heap = <<>>
    /\ systems = <<NewSystem("Solar System", Num(2))>>
    /\ active_system = 1

NextSystem ==
    \/ \E body \in NewBodies : Construct(body)
    \/ \E ref \in DOMAIN heap, set_as_central \in BOOLEAN :
          AddBody(ref, set_as_central)
    \/ \E body_name \in BodyNames \cup {"Pluto"} : RemoveBody(body_name)

SpecSystem == InitSystem /\ [][NextSystem]_vars

\* --------------------------------------------- orbits, removal, save and load
\* the file load_system opens: absent, not JSON, or the JSON object it holds
MissingFile == [status |-> "missing"]
InvalidFile == [status |-> "invalid"]
JsonFile(data) == [status |-> "json", data |-> data]

\* CelestialSimulation.load_system(filename): the system is reconstructed by
\* SolarSystem.from_dict, then registered and made active. FileNotFoundError and
\* json.JSONDecodeError are caught and reported; the KeyError of from_dict is
\* not caught.
LoadSystem(file) ==
    LET Failed(raised, message) ==
            /\ last' = Call("load_system", [file |-> file], raised,
                            [message |-> message])
            /\ UNCHANGED <<heap, systems, active_system>>
        Loaded(r) ==
            IF r.raised # "" THEN Failed(r.raised, "")
            ELSE /\ heap' = r.heap
                 /\ systems' = Append(systems, r.system)
                 /\ active_system' = Len(systems) + 1
                 /\ last' = Call("load_system", [file |-> file], "",
                                 [message |-> "System loaded"])
    IN  /\ Len(systems) < MaxSystems
        /\ CASE file.status = "missing" -> Failed("", "File not found")
             [] file.status = "invalid" -> Failed("", "Invalid JSON file")
             [] OTHER -> Loaded(SystemFromDict(heap, file.data))
        /\ UNCHANGED <<engine_config, engine_flags, frame_count, total_energy>>

\* the file save_system writes: active_system.to_dict()
SavedFile == JsonFile(SystemToDict(heap, systems[active_system]))

\* a system built body by body in the editor: a planet, a moon whose name was
\* left empty, and the star, which add_body makes central and fixed
OrbitSystem ==
    LET WithMoon(r) ==
            AddNewBody(r.heap, r.system,
                NewBody("", "moon", Num(1), <<Num(3), 0>>, ZeroVec, FALSE, 0),
                FALSE)
        WithStar(r) ==
            AddNewBody(r.heap, r.system,
                NewBody("Sun", "star", Num(4), ZeroVec, ZeroVec, FALSE, 0),
                FALSE)
    IN  WithStar(WithMoon(AddNewBody(<<>>, NewSystem("Workshop", Num(2)),
            NewBody("Earth", "planet", Num(1), <<Num(2), 0>>, ZeroVec,
                    FALSE, 0),
            FALSE)))

\* the calls of create_orbit explored: two refused distances, a circular
\* clockwise orbit and an elliptical counter-clockwise one
OrbitRequests ==
    {[distance |-> -Num(1), eccentricity |-> 0, clockwise |-> TRUE],
     [distance |-> 0, eccentricity |-> Scale \div 2, clockwise |-> FALSE],
     [distance |-> Num(2), eccentricity |-> 0, clockwise |-> TRUE],
     [distance |-> Num(2), eccentricity |-> Scale \div 2, clockwise |-> FALSE]}
OrbitNames == {"Sun", "Earth", "", "Pluto"}

InitOrbit ==
    /\ EngineInit
    /\ physics_G = [k \in ModelKeys |-> Num(1)]
    /\ heap = OrbitSystem.heap
    /\ systems = <<OrbitSystem.system>>
    /\ active_system = 1

\* create_orbit for two bodies of the system being edited, the orbiting one not
\* yet in an orbit; remove_body; save_system followed by load_system of the
\* file written
NextOrbit ==
    \/ \E ck, ok \in DOMAIN systems[active_system].bodies,
          request \in OrbitRequests, direction \in Directions :
          /\ Len(systems) = 1
          /\ ck # ok
          /\ heap[systems[active_system].bodies[ok]].parent = NONE
          /\ CreateOrbit(systems[active_system].bodies[ck],
                         systems[active_system].bodies[ok],
                         request.distance, request.eccentricity,
                         request.clockwise, direction)
    \/ \E body_name \in OrbitNames : RemoveBody(body_name)
    \/ LoadSystem(SavedFile)

SpecOrbit == InitOrbit /\ [][NextOrbit]_vars

\* ------------------------------------------------ loading files while running
\* a body record of a save file
PresetBody(name, mass, position) ==
    [name |-> name, body_type |-> "asteroid", mass |-> mass,
     radius |-> Num(1), position |-> position, velocity |-> ZeroVec,
     color |-> <<150, 100, 50>>, fixed_position |-> FALSE,
     parent |-> JsonNull]
\* a save file of two bodies; from_dict takes the mass it finds, whatever it is
PresetData(mass) ==
    [name |-> "Belt", time |-> 0, timestep |-> Num(2),
     bodies |-> <<PresetBody("Ceres", Num(1), ZeroVec),
                  PresetBody("Dust", mass, <<Num(2), 0>>)>>,
     central_star |-> JsonNull]
\* a JSON object without one of its keys
Without(data, key) == [k \in DOMAIN data \ {key} |-> data[k]]
\* the files load_system is given: none, one that is not JSON, a sound one, one
\* with a body of mass 0, one whose second body record has no mass, one
\* without the list of bodies
LoadFiles ==
    {MissingFile, InvalidFile, JsonFile(PresetData(Num(1))),
     JsonFile(PresetData(0)),
     JsonFile([PresetData(Num(1)) EXCEPT
                  !.bodies[2] = Without(@, "mass")]),
     JsonFile(Without(PresetData(Num(1)), "bodies"))}

\* CelestialSimulation.__init__: the engine with the default system active
InitLoad ==
    /\ EngineInit
    /\ physics_G = [k \in ModelKeys |-> Num(1)]
    /\ heap = DefaultSystem.heap
    /\ systems = <<DefaultSystem.system>>
    /\ active_system = 1

NextLoad ==
    \/ \E dt \in DtValues : Update(dt)
    \/ \E k \in IntegratorKeys : SetIntegrator(k)
    \/ \E file \in LoadFiles : LoadSystem(file)
    \/ ResetSimulation
    \/ ToggleRunning

SpecLoad == InitLoad /\ [][NextLoad]_vars

\* ------------------------------------------- mass, radius and density of bodies
\* body.update_radius_from_mass()
DeriveRadius(ref) ==
    /\ heap[ref].mass >= 0
    /\ heap' = [heap EXCEPT ![ref] = UpdateRadiusFromMass(@)]
    /\ last' = Call("update_radius_from_mass", [body |-> ref], "", Nothing)
    /\ UNCHANGED <<systems, active_system, engine_config, engine_flags,
                   frame_count, total_energy>>

\* body.update_mass_from_radius()
DeriveMass(ref) ==
    /\ heap' = [heap EXCEPT ![ref] = UpdateMassFromRadius(@)]
    /\ last' = Call("update_mass_from_radius", [body |-> ref], "", Nothing)
    /\ UNCHANGED <<systems, active_system, engine_config, engine_flags,
                   frame_count, total_energy>>

\* a save file of one body, with the mass, the radius and the density given
BodyData(mass, radius, density) ==
    [name |-> "Sample", time |-> 0, timestep |-> Num(1),
     bodies |-> <<[PresetBody("Rock", mass, <<Num(2), 0>>) EXCEPT
                      !.radius = radius] @@ [density |-> density]>>,
     central_star |-> JsonNull]
\* the files loaded: a sound one, one without the density, one with mass 0,
\* one with radius 0, one with density 0 and one with a negative density
BodyFiles ==
    {JsonFile(BodyData(Num(2), Num(1), Num(2))),
     JsonFile([BodyData(Num(2), Num(1), Num(2)) EXCEPT
                  !.bodies[1] = Without(@, "density")]),
     JsonFile(BodyData(0, Num(1), Num(1))),
     JsonFile(BodyData(Num(1), 0, Num(1))),
     JsonFile(BodyData(Num(2), Num(1), 0)),
     JsonFile(BodyData(Num(2), Num(1), -Num(1)))}

\* an engine whose active system holds one drifting body
InitBody ==
    /\ EngineInit
    /\ physics_G = [k \in ModelKeys |-> Num(1)]
    /\ heap = DriftSystem.heap
    /\ systems = <<DriftSystem.system>>
    /\ active_system = 1

NextBody ==
    \/ \E ref \in DOMAIN heap : DeriveRadius(ref)
    \/ \E ref \in DOMAIN heap : DeriveMass(ref)
    \/ \E file \in BodyFiles : LoadSystem(file)
    \/ \E dt \in {Scale \div 2} : Update(dt)
    \/ ToggleRunning

SpecBody == InitBody /\ [][NextBody]_vars

\* ------------------------------------------------ energy drift of a two-body run
\* a star and one planet on a circular orbit around it: the star is made
\* central and fixed by add_body; the planet starts at the distance 2 with the
\* tangential speed sqrt(G * M / distance)
TwoBodySystem(timestep, planet_mass) ==
    LET WithSun(r) ==
            AddNewBody(r.heap, r.system,
                NewBody("Earth", "planet", planet_mass, <<Num(2), 0>>,
                        <<0, FSqrt(FDiv(Num(4), Num(2)))>>, FALSE, MaxTrail),
                FALSE)
    IN  WithSun(AddNewBody(<<>>, NewSystem("Two bodies", timestep),
            NewBody("Sun", "star", Num(4), ZeroVec, ZeroVec, FALSE, MaxTrail),
            FALSE))
TwoBodySystems ==
    {TwoBodySystem(timestep, planet_mass) :
        timestep \in {Scale \div 2, Num(1)}, planet_mass \in {Num(1), Num(2)}}

RECURSIVE RunTicks(_, _, _, _, _, _, _)
\* n update calls in a row on the bodies refs of heap h, every one with the
\* same scaled time step: the heap after the last, or the exception of the
\* first call that raised
RunTicks(mkey, G, ikey, h, refs, scaled_dt, n) ==
    LET After(r) ==
            IF r.raised # "" THEN r
            ELSE RunTicks(mkey, G, ikey, r.heap, refs, scaled_dt, n - 1)
    IN  IF n = 0 THEN [raised |-> "", heap |-> h]
        ELSE After(Tick(mkey, G, ikey, h, refs, scaled_dt))

\* abs(calculate_total_energy() after n ticks - calculate_total_energy() before)
EnergyDrift(mkey, G, ikey, h, system, scaled_dt, n) ==
    LET Of(r) == Abs(FSub(CalculateTotalEnergy(r.heap, system),
                          CalculateTotalEnergy(h, system)))
    IN  Of(RunTicks(mkey, G, ikey, h, system.bodies, scaled_dt, n))

\* an engine running a two-body system with the euler or the verlet integrator
InitDrift ==
    /\ EngineInit
    /\ physics_G = [k \in ModelKeys |-> Num(1)]
    /\ \E sc \in TwoBodySystems :
          /\ heap = sc.heap
          /\ systems = <<sc.system>>
    /\ active_system = 1

NextDrift ==
    \/ \E dt \in {Scale \div 2} : Update(dt)
    \/ \E k \in {"euler", "verlet"} : frame_count = 0 /\ SetIntegrator(k)
    \/ \E v \in TimeScales : frame_count = 0 /\ SetTimeScale(v)
    \/ ToggleRunning
    \/ GetStatistics

SpecDrift == InitDrift /\ [][NextDrift]_vars

\* ------------------------------------------------ the integrators on their own
MaxCalls == 3      \* integrate calls made on a body integrated alone
MaxReach == 8      \* the largest coordinate such a body is taken to
TrailCaps == 0..(MaxTrail + 1)
NetForces == {ZeroVec, <<Num(1), 0>>, <<-Num(1), Num(1)>>}
StepSizes == {0, Scale \div 2, Num(1)}

\* the body's position, previous_position and velocity within the range explored
Reach(body) ==
    \A c \in 1..2 :
        /\ Abs(body.position[c]) <= Num(MaxReach)
        /\ Abs(body.previous_position[c]) <= Num(MaxReach)
        /\ Abs(body.velocity[c]) <= Num(MaxReach)

\* integrators[key].integrate(body, net_force, dt), body the only body there
\* is; frame_count counts the calls made, as it counts the ticks of update
IntegrateBody(key, net_force, dt) ==
    LET Done(r) ==
            /\ Reach(r.body)
            /\ heap' = [heap EXCEPT ![1] = r.body]
            /\ last' = Call("integrate",
                            [key |-> key, net_force |-> net_force, dt |-> dt],
                            r.raised, Nothing)
    IN  /\ frame_count < MaxCalls
        /\ Done(Integrate(key, heap[1], net_force, dt))
        /\ frame_count' = frame_count + 1
        /\ UNCHANGED <<systems, active_system, engine_config, engine_flags,
                       total_energy>>

\* one body just constructed, at rest or moving, with a trail cap of 0, 1, ...
InitIntegrate ==
    /\ EngineInit
    /\ physics_G = [k \in ModelKeys |-> Num(1)]
    /\ \E mass \in {Num(1), Num(2)}, velocity \in {ZeroVec, <<Num(1), 0>>},
          trail_length \in TrailCaps :
          heap = <<NewBody("Probe", "asteroid", mass, <<Num(1), 0>>, velocity,
                           FALSE, trail_length)>>
    /\ systems = <<>>
    /\ active_system = NONE

NextIntegrate ==
    \E key \in IntegratorKeys, net_force \in NetForces, dt \in StepSizes :
        IntegrateBody(key, net_force, dt)

SpecIntegrate == InitIntegrate /\ [][NextIntegrate]_vars

\* ------------------------------------------- a system edited, saved and loaded
\* add_body and remove_body on the system being edited, with bodies
\* constructed for it; then save_system followed by load_system of the file
NextRoundTrip ==
    \/ \E body \in NewBodies : Len(systems) = 1 /\ Construct(body)
    \/ \E ref \in DOMAIN heap, set_as_central \in BOOLEAN :
          Len(systems) = 1 /\ AddBody(ref, set_as_central)
    \/ \E body_name \in BodyNames : Len(systems) = 1 /\ RemoveBody(body_name)
    \/ LoadSystem(SavedFile)

SpecRoundTrip == InitSystem /\ [][NextRoundTrip]_vars

\* ======================================================================
\* Claims
\* ======================================================================
\* the references of the bodies of the active system
ActiveRefs == IF active_system = NONE THEN <<>>
              ELSE systems[active_system].bodies
\* the step is an update call that found the engine active, running, not paused
UpdateRan == /\ last'.op = "update"
             /\ active_system # NONE /\ is_running /\ ~is_paused
\* the scaled time step of the update call the step makes
StepDt == FMul(FMul(last'.arg.dt, time_scale), systems[active_system].timestep)

\* C1: an update call with no active system, or with is_running false, or with
\* is_paused true changes no body, no system clock, not the cached total energy
\* and not the tick counter.
C1_UpdateNoOp ==
    [][(last'.op = "update"
        /\ (active_system = NONE \/ ~is_running \/ is_paused))
       => UNCHANGED <<heap, systems, total_energy, frame_count>>]_vars

\* an update call arrived while the engine was running but paused, after a tick
C1_Witness ==
    /\ last.op = "update" /\ is_running /\ is_paused /\ active_system # NONE
    /\ frame_count > 0

\* C2: an update call, whatever the force model and the integrator, leaves
\* every body whose fixed_position is true with the position, velocity,
\* previous_position and trail it had.
C2_FixedBodyUntouched ==
    [][last'.op = "update"
       => \A ref \in DOMAIN heap :
             heap[ref].fixed_position
             => /\ heap'[ref].position = heap[ref].position
                /\ heap'[ref].velocity = heap[ref].velocity
                /\ heap'[ref].previous_position = heap[ref].previous_position
                /\ heap'[ref].previous_positions = heap[ref].previous_positions
                /\ heap'[ref].fixed_position]_vars

\* a tick completed that moved a free body of a system that has a fixed body
C2_Witness ==
    /\ last.op = "update" /\ last.raised = "" /\ frame_count > 0
    /\ \E k \in DOMAIN ActiveRefs : heap[ActiveRefs[k]].fixed_position
    /\ \E k \in DOMAIN ActiveRefs :
          /\ ~heap[ActiveRefs[k]].fixed_position
          /\ heap[ActiveRefs[k]].acceleration # ZeroVec

RECURSIVE IntegrateInOrder(_, _, _, _, _, _)
\* the bodies integrated in the order given (a sequence of list indices), each
\* with the force of the same force list; an exception ends the pass
IntegrateInOrder(key, h, refs, forces, scaled_dt, order) ==
    IF order = <<>> THEN h
    ELSE IF h[refs[Head(order)]].fixed_position
      THEN IntegrateInOrder(key, h, refs, forces, scaled_dt, Tail(order))
    ELSE LET r == Integrate(key, h[refs[Head(order)]], forces[Head(order)],
                            scaled_dt)
         IN  IF r.raised # "" THEN h
             ELSE IntegrateInOrder(key, [h EXCEPT ![refs[Head(order)]] = r.body],
                                   refs, forces, scaled_dt, Tail(order))

\* C3: the bodies after a tick are the bodies integrated, in any order, with the
\* forces computed from the state all bodies had when the tick began.
C3_ForcesFromTickStart ==
    [][UpdateRan
       => LET f == CalculateAllForces(current_physics,
                       physics_G[current_physics], TRUE,
                       BodyList(heap, ActiveRefs))
          IN  f.raised = ""
              => \A order \in Permutations(1..Len(ActiveRefs)) :
                    heap' = IntegrateInOrder(current_integrator, heap,
                                ActiveRefs, f.forces, StepDt,
                                [k \in 1..Len(ActiveRefs) |-> order[k]])]_vars

\* a tick completed in which two free bodies were each moved by a force
C3_Witness ==
    /\ last.op = "update" /\ last.raised = "" /\ frame_count > 0
    /\ \E j, k \in DOMAIN ActiveRefs :
          /\ j # k
          /\ ~heap[ActiveRefs[j]].fixed_position
          /\ ~heap[ActiveRefs[k]].fixed_position
          /\ heap[ActiveRefs[j]].acceleration # ZeroVec
          /\ heap[ActiveRefs[k]].acceleration # ZeroVec

\* C4: no trail is longer than the body's trail_length.
C4_TrailBounded ==
    \A ref \in DOMAIN heap :
        Len(heap[ref].previous_positions) <= heap[ref].trail_length

\* two ticks completed on a body whose cap is one entry (the second append
\* evicted the first), next to a body whose cap is zero
C4_Witness ==
    /\ frame_count >= 2
    /\ \E ref \in DOMAIN heap :
          /\ ~heap[ref].fixed_position /\ heap[ref].trail_length = 1
          /\ Len(heap[ref].previous_positions) = 1
          /\ heap[ref].previous_positions[1] = heap[ref].position
    /\ \E ref \in DOMAIN heap :
          /\ ~heap[ref].fixed_position /\ heap[ref].trail_length = 0

RECURSIVE SumOf(_, _)
\* the exact sum of the first n vectors of a list
SumOf(forces, n) ==
    IF n = 0 THEN ZeroVec
    ELSE LET rest == SumOf(forces, n - 1)
         IN  <<rest[1] + forces[n][1], rest[2] + forces[n][2]>>

\* the step is a call of the Newtonian calculate_all_forces that returned
NewtonianForcesReturned ==
    /\ last'.op = "calculate_all_forces" /\ last'.arg.key = "newtonian"
    /\ last'.raised = ""

\* C5 as stated: the net forces the Newtonian calculate_all_forces returns for
\* a list of bodies sum to the zero vector.
C5_NetForcesSumToZero ==
    [][NewtonianForcesReturned
       => SumOf(last'.ret.forces, Len(last'.ret.forces)) = ZeroVec]_vars

\* C5: for every pair i < j of a list of bodies, what the Newtonian
\* calculate_all_forces adds to the force on body i is the exact negation of
\* what it adds to the force on body j; the net forces it returns for a list
\* of two bodies sum to the zero vector.
C5_PairwiseNegation ==
    [][NewtonianForcesReturned
       => /\ \A i, j \in DOMAIN heap :
                i < j =>
                LET g == NewtonianGravity(physics_G["newtonian"], heap[i],
                                          heap[j]).force
                    acc == Accumulate([k \in DOMAIN heap |-> ZeroVec], i, j, g)
                IN  acc[i] = g /\ acc[j] = VNeg(g) /\ acc[i] = VNeg(acc[j])
          /\ Len(heap) = 2
             => /\ last'.ret.forces[1] = VNeg(last'.ret.forces[2])
                /\ SumOf(last'.ret.forces, 2) = ZeroVec]_vars

\* the Newtonian forces of two bodies apart were returned, and are not zero
C5_Witness ==
    /\ last.op = "calculate_all_forces" /\ last.arg.key = "newtonian"
    /\ Len(heap) = 2 /\ last.ret.forces[1] # ZeroVec
    /\ heap[1].position # heap[2].position

\* C6: set_integrator and set_physics_model, called with a key their registry
\* does not hold, raise nothing and leave both selected keys, every model's G
\* and the rest of the engine, its systems and their bodies as they were.
C6_UnknownKeyIgnored ==
    [][((last'.op = "set_integrator"
         /\ last'.arg.integrator_name \notin IntegratorKeys)
        \/ (last'.op = "set_physics_model"
            /\ last'.arg.model_name \notin ModelKeys))
       => /\ last'.raised = ""
          /\ UNCHANGED <<heap, systems, active_system, physics_G,
                         current_physics, current_integrator, is_running,
                         is_paused, frame_count, time_scale,
                         gravitational_constant, total_energy>>]_vars

\* set_integrator was called with an unregistered key while an integrator
\* other than the default was selected and a tick had run
C6_Witness ==
    /\ last.op = "set_integrator" /\ last.arg.integrator_name = "leapfrog"
    /\ current_integrator = "euler" /\ current_physics = "relativistic"
    /\ frame_count > 0

\* C7: every update call that is not a no-op advances the clock of the active
\* system by scaled_dt = dt * time_scale * timestep.
C7_ClockAdvances ==
    [][UpdateRan
       => systems'[active_system].time
              = FAdd(systems[active_system].time, StepDt)]_vars

\* C8 as stated: no operation takes the clock of a system below a value it had.
C8_ClockMonotonic ==
    [][\A k \in DOMAIN systems : systems'[k].time >= systems[k].time]_vars

\* C8: the clock of a system never decreases over set_integrator,
\* set_physics_model, set_gravitational_constant, add_system, create_orbit
\* and over update calls whose scaled_dt is not negative; reset_simulation
\* puts the clock of the active system back to 0 and leaves the others.
C8_ClockMonotonicButReset ==
    [][IF last'.op = "reset_simulation"
         THEN \A k \in DOMAIN systems :
                 systems'[k].time = IF k = active_system THEN 0
                                    ELSE systems[k].time
         ELSE (UpdateRan => StepDt >= 0)
              => \A k \in DOMAIN systems :
                    systems'[k].time >= systems[k].time]_vars

\* two ticks have advanced the clock of the active system
C8_Witness ==
    /\ last.op = "update" /\ last.raised = "" /\ last.arg.dt > 0
    /\ active_system # NONE /\ frame_count >= 2
    /\ systems[active_system].time >= Num(2)

\* every registered model has the G of the engine
AllModelsShareG == \A k \in ModelKeys : physics_G[k] = gravitational_constant

\* C9: set_gravitational_constant leaves every registered model with the G of
\* the engine, and once that is so every operation keeps it so.
C9_ModelsShareG ==
    [][(last'.op = "set_gravitational_constant" \/ AllModelsShareG)
       => AllModelsShareG']_vars

\* the engine was given a new G, then a model was selected and a tick ran
C9_Witness ==
    /\ AllModelsShareG /\ gravitational_constant = Num(2)
    /\ current_physics = "relativistic" /\ frame_count > 0
    /\ last.op = "update"

\* C10: add_body appends the body to the body list of the system; when
\* set_as_central is true, or the body is of type 'star' and the system has no
\* central body, the body becomes the central body and its fixed_position
\* becomes true; otherwise the central body and the body's fixed_position stay
\* as they were. Nothing else of any body changes.
C10_AddBody ==
    [][last'.op = "add_body"
       => LET ref == last'.arg.body
              system == systems[active_system]
              after == systems'[active_system]
          IN  /\ after.bodies = Append(system.bodies, ref)
              /\ IF last'.arg.set_as_central
                    \/ (heap[ref].body_type = "star" /\ system.central_star = NONE)
                   THEN /\ after.central_star = ref
                        /\ heap' = [heap EXCEPT ![ref].fixed_position = TRUE]
                   ELSE /\ after.central_star = system.central_star
                        /\ heap' = heap]_vars

\* a body of type 'star' that is not fixed was added, without set_as_central,
\* to a system whose central body is another body: it did not become central
C10_Witness ==
    /\ last.op = "add_body" /\ ~last.arg.set_as_central
    /\ heap[last.arg.body].body_type = "star"
    /\ ~heap[last.arg.body].fixed_position
    /\ systems[active_system].central_star \notin {NONE, last.arg.body}
    /\ Len(systems[active_system].bodies) >= 2

\* C11: remove_body(name) removes the first body, in list order, that has the
\* name and returns true: the bodies before it and after it, later bodies of
\* the same name included, stay listed in their order; the central body
\* becomes none exactly when the removed body is the central body. With no
\* body of that name it returns false and changes nothing. No body object is
\* written either way.
C11_RemoveBody ==
    [][last'.op = "remove_body"
       => LET system == systems[active_system]
              after == systems'[active_system]
              refs == system.bodies
              matches == {k \in DOMAIN refs :
                             heap[refs[k]].name = last'.arg.body_name}
          IN  /\ heap' = heap
              /\ IF matches = {}
                   THEN ~last'.ret.found /\ systems' = systems
                   ELSE LET i == CHOOSE k \in matches :
                                     \A m \in matches : k <= m
                        IN  /\ last'.ret.found
                            /\ after.bodies = SubSeq(refs, 1, i - 1)
                                   \o SubSeq(refs, i + 1, Len(refs))
                            /\ after.central_star =
                                   IF refs[i] = system.central_star THEN NONE
                                   ELSE system.central_star
                            /\ systems' = [systems EXCEPT ![active_system] =
                                   [system EXCEPT
                                       !.bodies = after.bodies,
                                       !.central_star = after.central_star]]
      ]_vars

\* the central body was removed by name while another body of the same name
\* stays listed: the system has no central body, and the removed object (made
\* fixed when it became central) is no longer in the list
C11_Witness ==
    /\ last.op = "remove_body" /\ last.ret.found
    /\ systems[active_system].central_star = NONE
    /\ \E k \in DOMAIN systems[active_system].bodies :
          heap[systems[active_system].bodies[k]].name = last.arg.body_name
    /\ \E ref \in DOMAIN heap :
          /\ heap[ref].name = last.arg.body_name
          /\ heap[ref].fixed_position
          /\ \A k \in DOMAIN systems[active_system].bodies :
                systems[active_system].bodies[k] # ref

\* the bodies a system lists
Listed(system) == {system.bodies[k] : k \in DOMAIN system.bodies}

\* C12: the parent of every listed body, when set, is a body of the list of
\* the same system; after the parent is removed no listed body still has it
\* as parent.
C12_ParentListed ==
    \A s \in DOMAIN systems : \A ref \in Listed(systems[s]) :
        heap[ref].parent # NONE => heap[ref].parent \in Listed(systems[s])

\* C13: create_orbit with distance <= 0 raises nothing and writes no body;
\* with distance > 0 it raises nothing and writes the position, the velocity
\* and the parent of the orbiting body and nothing else: the parent becomes the
\* central body, the position lies at the drawn direction times the distance
\* from the central body, and the central body, every other body and every
\* system are as before.
C13_CreateOrbitFrame ==
    [][last'.op = "create_orbit"
       => LET central == last'.arg.central_body
              orbiting == last'.arg.orbiting_body
          IN  /\ last'.raised = ""
              /\ systems' = systems /\ active_system' = active_system
              /\ IF last'.arg.distance <= 0 THEN heap' = heap
                 ELSE /\ heap'[orbiting].parent = central
                      /\ \E direction \in Directions :
                            heap'[orbiting].position =
                                VAdd(heap[central].position,
                                     VMul(direction, last'.arg.distance))
                      /\ heap' = [heap EXCEPT
                             ![orbiting].position = heap'[orbiting].position,
                             ![orbiting].velocity = heap'[orbiting].velocity,
                             ![orbiting].parent = central]
      ]_vars

\* an elliptical counter-clockwise orbit was set up around a body that moves:
\* the orbiting body got a position, a velocity and the parent
C13_Witness ==
    /\ last.op = "create_orbit" /\ last.raised = ""
    /\ last.arg.distance > 0 /\ last.arg.eccentricity # 0
    /\ ~last.arg.clockwise
    /\ heap[last.arg.central_body].velocity # ZeroVec
    /\ heap[last.arg.orbiting_body].parent = last.arg.central_body
    /\ heap[last.arg.orbiting_body].velocity
           # heap[last.arg.central_body].velocity

\* C14: reset_simulation sets the clock of the active system to 0 and empties
\* the trail of every body of the active system. Every other field of those
\* bodies (position, velocity, previous_position, fixed_position, ...), the
\* body list, the bodies and clocks of the systems that are not active, the
\* selected model and integrator and the running and paused flags stay as
\* they were; with no active system nothing changes.
C14_ResetFrame ==
    [][last'.op = "reset_simulation"
       => /\ UNCHANGED <<active_system, engine_config, engine_flags>>
          /\ IF active_system = NONE
               THEN heap' = heap /\ systems' = systems
             ELSE /\ systems' = [systems EXCEPT ![active_system].time = 0]
                  /\ DOMAIN heap' = DOMAIN heap
                  /\ \A ref \in DOMAIN heap :
                        heap'[ref] =
                            IF ref \in Listed(systems[active_system])
                              THEN [heap[ref] EXCEPT
                                       !.previous_positions = <<>>]
                            ELSE heap[ref]
      ]_vars

\* a reset with two systems registered: the active one has a body that moved
\* and now has an empty trail and the clock 0, the other one keeps its clock
\* and the trail of its body
C14_Witness ==
    /\ last.op = "reset_simulation"
    /\ Len(systems) = 2 /\ active_system # NONE
    /\ systems[active_system].time = 0
    /\ \E ref \in Listed(systems[active_system]) :
          /\ heap[ref].position # ZeroVec /\ heap[ref].trail_length > 0
          /\ heap[ref].previous_positions = <<>>
    /\ \E s \in DOMAIN systems :
          /\ s # active_system /\ systems[s].time # 0
          /\ \E ref \in Listed(systems[s]) :
                heap[ref].previous_positions # <<>>

\* the save file of the active system was loaded in this step
SavedFileLoaded ==
    /\ last'.op = "load_system" /\ last'.raised = ""
    /\ active_system # NONE /\ last'.arg.file = SavedFile

\* C15: for a system whose body names are unique, loading the file it was
\* saved to gives a system with the same number of bodies, in the same order,
\* each with the name, mass, position, velocity and colour of the original;
\* the parent of each is the reconstructed body that has the name of the
\* original's parent, wherever in the list that body stands, and none when the
\* original has no parent or its parent's name is the name of no listed body.
C15_RoundTrip ==
    [][SavedFileLoaded
       => LET old == systems[active_system].bodies
              new == systems'[Len(systems')].bodies
              named(name) == {j \in DOMAIN old : heap[old[j]].name = name}
              saved(k) == heap[old[k]]
              loaded(k) == heap'[new[k]]
          IN  (\A j, k \in DOMAIN old : saved(j).name = saved(k).name => j = k)
              => /\ Len(new) = Len(old)
                 /\ \A k \in DOMAIN old :
                       /\ loaded(k).name = saved(k).name
                       /\ loaded(k).mass = saved(k).mass
                       /\ loaded(k).position = saved(k).position
                       /\ loaded(k).velocity = saved(k).velocity
                       /\ loaded(k).color = saved(k).color
                       /\ IF saved(k).parent = NONE
                            THEN loaded(k).parent = NONE
                          ELSE IF named(heap[saved(k).parent].name) = {}
                            THEN loaded(k).parent = NONE
                          ELSE \E j \in named(heap[saved(k).parent].name) :
                                  loaded(k).parent = new[j]
      ]_vars

\* the file exists, is JSON and holds every key from_dict reads with data[...]
FileIsSound(file) ==
    /\ file.status = "json"
    /\ {"name", "bodies"} \subseteq DOMAIN file.data
    /\ \A k \in DOMAIN file.data.bodies :
          BodyKeys \subseteq DOMAIN file.data.bodies[k]

\* C16: a load_system whose file is missing, is not JSON or holds a record
\* without a required key leaves the list of systems, the active system and
\* every body as they were (the missing key surfaces as a KeyError, the other
\* two are reported). A load of a sound file appends one system, made of
\* bodies constructed for it, makes it the active one and writes no body that
\* existed. The engine settings are untouched either way.
C16_FailedLoadChangesNothing ==
    [][last'.op = "load_system"
       => /\ UNCHANGED <<engine_config, engine_flags, frame_count, total_energy>>
          /\ IF FileIsSound(last'.arg.file)
               THEN /\ last'.raised = ""
                    /\ Len(systems') = Len(systems) + 1
                    /\ SubSeq(systems', 1, Len(systems)) = systems
                    /\ active_system' = Len(systems')
                    /\ SubSeq(heap', 1, Len(heap)) = heap
                    /\ Len(systems'[Len(systems')].bodies)
                           = Len(last'.arg.file.data.bodies)
                    /\ \A ref \in Listed(systems'[Len(systems')]) :
                          ref \in DOMAIN heap' \ DOMAIN heap
             ELSE /\ UNCHANGED <<heap, systems, active_system>>
                  /\ last'.raised =
                         IF last'.arg.file.status = "json" THEN "KeyError"
                         ELSE ""
      ]_vars

\* a load failed on the second body record, after the first body had been
\* constructed, in an engine that had run a tick: one system, three bodies
C16_Witness ==
    /\ last.op = "load_system" /\ last.raised = "KeyError"
    /\ "bodies" \in DOMAIN last.arg.file.data
    /\ frame_count > 0
    /\ Len(systems) = 1 /\ active_system = 1 /\ Len(heap) = 3

\* C17: an update call that does its work either returns, having advanced the
\* clock by the scaled time step, or raises and leaves every body and every
\* clock as they were: no tick stops after some of the bodies were integrated.
C17_TickAllOrNothing ==
    [][UpdateRan
       => IF last'.raised = ""
            THEN systems' = [systems EXCEPT ![active_system].time =
                                FAdd(@, StepDt)]
          ELSE heap' = heap /\ systems' = systems
      ]_vars

\* C18: get_statistics writes nothing. It reports the number of bodies of the
\* active system as body_count, the clock of the active system divided by the
\* seconds of a year as simulation_time_years, the keys of the selected model
\* and integrator and the cached total energy; with no active system it
\* reports body_count 0 and simulation_time_years 0, and raises nothing.
C18_StatisticsReadOnly ==
    [][last'.op = "get_statistics"
       => /\ UNCHANGED <<heap, systems, active_system, engine_config,
                         engine_flags, frame_count, total_energy>>
          /\ last'.raised = ""
          /\ last'.ret.physics_model = current_physics
          /\ last'.ret.integrator = current_integrator
          /\ last'.ret.total_energy = total_energy
          /\ IF active_system = NONE
               THEN /\ last'.ret.body_count = 0
                    /\ last'.ret.simulation_time_years = 0
             ELSE /\ last'.ret.body_count = Len(systems[active_system].bodies)
                  /\ last'.ret.simulation_time_years =
                         FDiv(systems[active_system].time, SECONDS_PER_YEAR)
      ]_vars

\* statistics taken after ticks, with the model and the integrator changed:
\* three bodies, a clock that is not a whole number of years
C18_Witness ==
    /\ last.op = "get_statistics"
    /\ last.ret.body_count = 3
    /\ last.ret.simulation_time_years > 0
    /\ last.ret.simulation_time_years # systems[active_system].time
    /\ last.ret.physics_model = "relativistic"
    /\ last.ret.integrator = "euler"
    /\ frame_count = MaxTicks

\* two bodies of the list are at the same position
HasCoincidentPair(bs) ==
    \E i, j \in DOMAIN bs : i < j /\ bs[i].position = bs[j].position
\* the pairs of calculate_all_forces whose bodies are at different positions
ApartPairs(bs) ==
    LET Apart(p) == bs[p[1]].position # bs[p[2]].position
    IN  SelectSeq(PairsFrom(1, 2, Len(bs)), Apart)
\* the kinetic energy of a body
KineticOf(body) ==
    FMul(FMul(FDiv(Num(1), Num(2)), body.mass),
         FMul(Magnitude(body.velocity), Magnitude(body.velocity)))
RECURSIVE EnergyApart(_, _, _, _)
\* the energy summed in the order of calculate_total_energy, with a potential
\* term for the pairs at different positions only; total holds the terms up to
\* the kinetic energy of body i and the pairs (i, i+1) .. (i, j-1)
EnergyApart(bs, i, j, total) ==
    IF i > Len(bs) THEN total
    ELSE IF j > Len(bs)
      THEN EnergyApart(bs, i + 1, i + 2,
               IF i + 1 <= Len(bs) THEN FAdd(total, KineticOf(bs[i + 1]))
               ELSE total)
    ELSE EnergyApart(bs, i, j + 1,
             IF bs[i].position # bs[j].position
               THEN FAdd(total,
                        FDiv(FMul(FMul(0 - Num(1), bs[i].mass), bs[j].mass),
                             Distance(bs[i].position, bs[j].position)))
             ELSE total)

\* C19: on a list in which two bodies are at the same position,
\* calculate_all_forces of either model and calculate_total_energy raise
\* nothing; the forces returned are those accumulated over the pairs at
\* different positions alone (a coincident pair adds the zero vector to both
\* of its bodies), and the energy has no potential term for a coincident pair.
C19_ZeroSeparation ==
    [][HasCoincidentPair(heap)
       => /\ last'.op = "calculate_all_forces"
             => /\ last'.raised = ""
                /\ last'.ret.forces =
                       ForceLoop(last'.arg.key, physics_G[last'.arg.key],
                                 last'.arg.enable_time_dilation, heap,
                                 ApartPairs(heap),
                                 [k \in DOMAIN heap |-> ZeroVec]).forces
          /\ last'.op = "calculate_total_energy"
             => /\ last'.raised = ""
                /\ last'.ret.energy =
                       EnergyApart(heap, 1, 2, KineticOf(heap[1]))
      ]_vars

\* the forces of a list of three bodies were computed, two of the bodies at
\* the same position and the third apart: the force on each of the two is not
\* zero, it comes from the third body
C19_Witness ==
    /\ last.op = "calculate_all_forces" /\ last.raised = ""
    /\ Len(heap) = 3
    /\ heap[1].position = heap[2].position
    /\ heap[3].position # heap[1].position
    /\ last.ret.forces[1] # ZeroVec /\ last.ret.forces[2] # ZeroVec

\* 2 * G * mass / c^2
SchwarzschildRadius(G, mass) ==
    FDiv(FMul(FMul(Num(2), G), mass), FMul(SPEED_OF_LIGHT, SPEED_OF_LIGHT))
\* every pair (i, j), i < j, of the list is within the Schwarzschild radius of
\* the mass of body i
AllWithinRadius(G, bs) ==
    \A i, j \in DOMAIN bs :
        i < j => Magnitude(VSub(bs[j].position, bs[i].position))
                     <= SchwarzschildRadius(G, bs[i].mass)

\* C20: the relativistic calculate_all_forces returns exactly the forces of
\* the Newtonian one with the same G when time dilation is disabled, and also
\* when it is enabled on a list each of whose pairs is no further apart than
\* the Schwarzschild radius of the mass of its first body.
C20_RelativisticIsNewtonian ==
    [][/\ last'.op = "calculate_all_forces"
       /\ last'.arg.key = "relativistic"
       /\ \/ ~last'.arg.enable_time_dilation
          \/ AllWithinRadius(physics_G["relativistic"], heap)
       => /\ last'.raised = ""
          /\ last'.ret.forces =
                 CalculateAllForces("newtonian", physics_G["relativistic"],
                                    FALSE, heap).forces
      ]_vars

\* relativistic forces were computed with time dilation disabled on a list
\* for which the enabled model gives other forces
C20_Witness ==
    /\ last.op = "calculate_all_forces" /\ last.arg.key = "relativistic"
    /\ ~last.arg.enable_time_dilation /\ last.raised = ""
    /\ Len(heap) = 3
    /\ last.ret.forces
           # CalculateAllForces("relativistic", physics_G["relativistic"],
                                TRUE, heap).forces

\* C21: in every state reached by construction, loading, the two derivations
\* and update ticks, the mass and the radius of every body are greater than 0.
C21_MassRadiusPositive ==
    \A ref \in DOMAIN heap : heap[ref].mass > 0 /\ heap[ref].radius > 0

\* the bodies a file brought in whose mass or radius is not positive
LoadedNotPositive ==
    \E ref \in DOMAIN heap :
        /\ heap[ref].name = "Rock"
        /\ heap[ref].mass <= 0 \/ heap[ref].radius <= 0

\* the same, but for the bodies of a file that gave them a mass or radius of 0
C21_PositiveUnlessLoaded == LoadedNotPositive \/ C21_MassRadiusPositive

\* the two derivations change nothing of a body whose density is not positive
C21_DerivationNoOp ==
    [][/\ last'.op \in {"update_radius_from_mass", "update_mass_from_radius"}
       /\ heap[last'.arg.body].density <= 0
       => UNCHANGED <<heap, systems, active_system>>]_vars

\* the system the run started from: the two bodies as they were constructed
StartOfRun ==
    CHOOSE sc \in TwoBodySystems :
        /\ sc.system.timestep = systems[1].timestep
        /\ \A ref \in DOMAIN heap : sc.heap[ref].mass = heap[ref].mass
\* the drift of the total energy over the frame_count ticks of this run, had
\* they been made with the integrator given
DriftWith(ikey) ==
    EnergyDrift(current_physics, physics_G[current_physics], ikey,
                StartOfRun.heap, StartOfRun.system,
                ScaledDt(Scale \div 2, time_scale, systems[1].timestep),
                frame_count)

\* C22: after N >= 1 ticks of the two-body system the total energy has drifted
\* less from its initial value with the verlet integrator than with the euler
\* integrator.
C22_VerletDriftsLess ==
    current_integrator = "verlet" /\ frame_count > 0
    => /\ DriftWith("verlet") =
              Abs(FSub(total_energy,
                       CalculateTotalEnergy(StartOfRun.heap, StartOfRun.system)))
       /\ DriftWith("verlet") < DriftWith("euler")

\* the cached energy of a run is the energy RunTicks arrives at
C22_RunIsTheRun ==
    frame_count > 0
    => /\ Abs(FSub(total_energy,
                   CalculateTotalEnergy(StartOfRun.heap, StartOfRun.system)))
             = DriftWith(current_integrator)
       /\ RunTicks(current_physics, physics_G[current_physics],
                   current_integrator, StartOfRun.heap, systems[1].bodies,
                   ScaledDt(Scale \div 2, time_scale, systems[1].timestep),
                   frame_count).heap = heap

\* the euler run never drifts more than the verlet run
C22_EulerDriftsLess ==
    frame_count > 0 => DriftWith("euler") <= DriftWith("verlet")

\* the step is an integrate call of the euler or verlet integrator that returned
Integrated ==
    /\ last'.op = "integrate" /\ last'.raised = ""
    /\ last'.arg.key \in {"euler", "verlet"}

C24_VerletStep ==
    [][last'.op = "integrate" /\ last'.arg.key = "verlet"
       => IF last'.raised = ""
            THEN /\ heap'[1].position =
                        VAdd(VSub(VMul(heap[1].position, Num(2)),
                                  heap[1].previous_position),
                             VMul(VDiv(last'.arg.net_force, heap[1].mass),
                                  FMul(last'.arg.dt, last'.arg.dt)))
                 /\ heap'[1].previous_position = heap[1].position
          ELSE heap' = heap]_vars

\* the second of two verlet calls in a row returned, under a force, for a body
\* that moved in both: its previous_position is where the first call left it
C24_Witness ==
    /\ last.op = "integrate" /\ last.arg.key = "verlet" /\ last.raised = ""
    /\ last.arg.net_force # ZeroVec
    /\ frame_count = 2
    /\ heap[1].trail_length = 2
    /\ Len(heap[1].previous_positions) = 2
    /\ heap[1].previous_position = heap[1].previous_positions[1]
    /\ heap[1].previous_position \notin {ZeroVec, <<Num(1), 0>>}
    /\ heap[1].position # heap[1].previous_position
    /\ heap[1].acceleration # ZeroVec
    \* the call started with the previous_position the first call had set,
    \* the body's first position, not with the one of the constructor
    /\ LET From(previous) ==
               VAdd(VSub(VMul(heap[1].previous_position, Num(2)), previous),
                    VMul(heap[1].acceleration,
                         FMul(last.arg.dt, last.arg.dt)))
       IN  /\ heap[1].position = From(<<Num(1), 0>>)
           /\ heap[1].position # From(ZeroVec)

\* the velocities a second run gives the bodies
OtherVelocities == {ZeroVec, <<Num(1), 0>>, <<-Num(2), Num(3)>>}
\* the heap with the velocity of every body replaced
WithVelocities(h, velocity) ==
    [ref \in DOMAIN h |-> [h[ref] EXCEPT !.velocity = velocity[ref]]]

\* C25: under the verlet integrator and the Newtonian model a tick does not
\* read the velocities: started from the same state with any other velocities
\* it raises or returns alike and leaves every body with the same position,
\* previous_position, acceleration and trail, and every body it integrated
\* with the same velocity too, so two runs that differ only in their initial
\* velocities agree on the positions and previous_positions after every tick.
C25_VelocityOutputOnly ==
    [][/\ UpdateRan
       /\ current_integrator = "verlet" /\ current_physics = "newtonian"
       => \A velocity \in [DOMAIN heap -> OtherVelocities] :
             LET Same(r) ==
                     /\ r.raised = last'.raised
                     /\ \A ref \in DOMAIN heap :
                            /\ [r.heap[ref] EXCEPT !.velocity = ZeroVec]
                                   = [heap'[ref] EXCEPT !.velocity = ZeroVec]
                            /\ heap'[ref] # heap[ref]
                                   => r.heap[ref] = heap'[ref]
             IN  Same(Tick("newtonian", physics_G["newtonian"], "verlet",
                           WithVelocities(heap, velocity), ActiveRefs,
                           StepDt))]_vars

\* a second verlet tick under the Newtonian model has moved a body that had a
\* velocity of its own when the tick began
C25_Witness ==
    /\ last.op = "update" /\ last.raised = "" /\ frame_count = 2
    /\ current_integrator = "verlet" /\ current_physics = "newtonian"
    /\ \E k \in DOMAIN ActiveRefs :
          /\ ~heap[ActiveRefs[k]].fixed_position
          /\ heap[ActiveRefs[k]].velocity \notin OtherVelocities
          /\ heap[ActiveRefs[k]].position
                 # heap[ActiveRefs[k]].previous_position
          /\ heap[ActiveRefs[k]].previous_position # ZeroVec

\* C26: after every update call that is not a no-op the cached total_energy is
\* calculate_total_energy() of the active system as the call left it.
C26_EnergyCached ==
    [][UpdateRan
       => total_energy' = CalculateTotalEnergy(heap', systems'[active_system])
      ]_vars

\* an update call that returns caches the energy of the state it leaves, and
\* get_statistics reports the cached value
C26_EnergyCachedOnReturn ==
    [][/\ UpdateRan /\ last'.raised = ""
          => total_energy'
                 = CalculateTotalEnergy(heap', systems'[active_system])
       /\ last'.op = "get_statistics"
          => last'.ret.total_energy = total_energy]_vars

\* the bodies of the registered systems other than the active one, and those
\* systems themselves, are the same after the step
OtherSystemsUntouched ==
    \A k \in DOMAIN systems :
        k # active_system
        => /\ systems'[k] = systems[k]
           /\ \A j \in DOMAIN systems[k].bodies :
                  heap'[systems[k].bodies[j]] = heap[systems[k].bodies[j]]

\* C27: once a system has been added the active system is one of the
\* registered systems; add_system appends the system and makes it active
\* exactly when set_active is true or no system was active; update and
\* reset_simulation leave every registered system but the active one, and its
\* bodies, unchanged.
C27_ActiveSystem ==
    [][/\ Len(systems') > 0 => active_system' \in DOMAIN systems'
       /\ last'.op = "add_system"
          => /\ Len(systems') = Len(systems) + 1
             /\ \A k \in DOMAIN systems : systems'[k] = systems[k]
             /\ active_system' =
                    IF last'.arg.set_active \/ active_system = NONE
                      THEN Len(systems') ELSE active_system
       /\ last'.op \in {"update", "reset_simulation"}
          => /\ active_system' = active_system
             /\ Len(systems') = Len(systems)
             /\ OtherSystemsUntouched]_vars

\* two systems are registered, the second added without being made active; a
\* tick has moved a body of the active one and advanced its clock only
C27_Witness ==
    /\ Len(systems) = 2 /\ active_system = 1
    /\ last.op = "update" /\ last.raised = ""
    /\ systems[1].time # 0 /\ systems[2].time = 0
    /\ \E j \in DOMAIN systems[1].bodies :
          heap[systems[1].bodies[j]].previous_positions # <<>>
    /\ \A j \in DOMAIN systems[2].bodies :
          heap[systems[2].bodies[j]].previous_positions = <<>>

\* C28: the central body of a system, when there is one, is in the body list
\* of the system and has fixed_position true.
C28_CentralListedFixed ==
    \A k \in DOMAIN systems :
        systems[k].central_star # NONE
        => /\ systems[k].central_star \in Listed(systems[k])
           /\ heap[systems[k].central_star].fixed_position

\* after a removal that found its body, the central body is a planet that
\* add_body was asked to make central, listed behind another body
C28_Witness ==
    /\ last.op = "remove_body" /\ last.ret.found
    /\ systems[1].central_star # NONE
    /\ heap[systems[1].central_star].body_type = "planet"
    /\ Len(systems[1].bodies) >= 2
    /\ systems[1].bodies[1] # systems[1].central_star
    /\ systems[1].central_star \in Listed(systems[1])

\* C29: the system from_dict builds from to_dict of a system has a central
\* body exactly when the original has one, at a list position where the
\* original lists its central body, and every body has the fixed_position flag
\* of the body at its list position in the original.
C29_RoundTripKeepsCentral ==
    [][last'.op = "load_system" /\ last'.raised = ""
       => LET old == systems[active_system]
              new == systems'[active_system']
          IN  /\ Len(new.bodies) = Len(old.bodies)
              /\ (new.central_star = NONE) = (old.central_star = NONE)
              /\ \A k \in DOMAIN old.bodies :
                    /\ new.bodies[k] = new.central_star
                           => old.bodies[k] = old.central_star
                    /\ heap'[new.bodies[k]].fixed_position
                           = heap[old.bodies[k]].fixed_position]_vars

\* the same for the systems in which no star stands behind or without a
\* central body and no two listed bodies share a name
C29_RoundTripOfPlainSystems ==
    [][/\ last'.op = "load_system" /\ last'.raised = ""
       /\ LET old == systems[active_system]
          IN  /\ \A j, k \in DOMAIN old.bodies :
                    j # k => heap[old.bodies[j]].name # heap[old.bodies[k]].name
              /\ \A k \in DOMAIN old.bodies :
                    heap[old.bodies[k]].body_type = "star"
                    => old.bodies[k] = old.central_star
       => LET old == systems[active_system]
              new == systems'[active_system']
          IN  /\ (new.central_star = NONE) = (old.central_star = NONE)
              /\ \A k \in DOMAIN old.bodies :
                    /\ new.bodies[k] = new.central_star
                           => old.bodies[k] = old.central_star
                    /\ heap'[new.bodies[k]].fixed_position
                           = heap[old.bodies[k]].fixed_position]_vars

\* C30: an rk4 integrate call returns and leaves the body with the velocity
\* the euler integrator gives it from the same body, force and dt.
C30_Rk4VelocityIsEuler ==
    [][last'.op = "integrate" /\ last'.arg.key = "rk4"
       => /\ last'.raised = ""
          /\ heap'[1].velocity =
                 EulerIntegrate(heap[1], last'.arg.net_force,
                                last'.arg.dt).body.velocity]_vars

\* an rk4 integrate call raises TypeError and writes nothing
C30_Rk4Raises ==
    [][last'.op = "integrate" /\ last'.arg.key = "rk4"
       => last'.raised = "TypeError" /\ heap' = heap]_vars
=============================================================================
